---- MODULE Spec2Model ----
(***************************************************************************)
(* age-edit (main.go v0.14.0, signal_unix.go): the edit session.           *)
(*                                                                         *)
(* Each session is one age-edit process: the main goroutine runs cli() and *)
(* edit(), the goroutine started by handleSignals() runs the SIGUSR1       *)
(* listener, and the editor is a child process that writes the plaintext   *)
(* temp file.  All sessions work on the same encrypted file (cfg.encPath). *)
(* Every session has a workspace of its own (its random subdirectory).     *)
(***************************************************************************)
EXTENDS Integers, FiniteSets, Sequences, TLC

(* ------------------------------ bounds -------------------------------- *)

\* Plaintexts are 0 .. MaxContent; 0 is the empty plaintext.
MaxContent == 1
\* Events from outside (editor writes and SIGUSR1 deliveries) in a run of two
\* concurrent sessions, in all, whichever session they go to.
DuoEvents == 1
\* The same, for a session running alone.
SoloEvents == 3
\* The random identifiers that can be drawn.
NumIDs == 2
\* The identities that exist, and the events from outside in the runs that
\* vary the identities.
NumKeys == 2
KeyEvents == 1
\* The events from outside in the runs on the order of writes and saves.
RaceEvents == 4
\* An identities file has at most this many lines.
MaxLines == 3
\* Paths are put together from at most this many pieces.
MaxPieces == 3
\* The warning threshold is at most this many seconds.
MaxWarn == 2
\* The clock's readings, in whole seconds, go up to this.
MaxClock == 3

Sessions == {"s1", "s2"}
Activities == {"main", "listener"}
Contents == 0 .. MaxContent

(* ------------------------------- files -------------------------------- *)

NoFile == [st |-> "absent", data |-> 0]
File(c) == [st |-> "file", data |-> c]
TempFiles == {NoFile} \cup {File(c) : c \in Contents}

\* The encrypted file: absent, a complete age file holding a plaintext, or
\* an incomplete one (created or truncated by os.Create, or cut short).
NoEnc == [st |-> "absent", plain |-> 0]
Partial == [st |-> "partial", plain |-> 0]
Age(c) == [st |-> "age", plain |-> c]

\* No signal delivered with the editor running.
NoTrigger == [st |-> "none", data |-> 0]

Configs == [lock : BOOLEAN, readOnly : BOOLEAN]

VARIABLES
    umask,      \* the file mode creation mask of the sessions' processes
    mode,       \* the permission bits of the directories and temp files
    userDir,    \* the per-user directory above the random ones exists
    rand,       \* rand[s]: what randomID returns in session s
    ids,        \* ids[s]: the identities in the session's identities file
    readers,    \* the recipients the last complete encrypted file was made for
    call,       \* a call of one of the program's pure functions, made by itself
    force,      \* force[s]: AGE_EDIT_FORCE is set in the process's environment
                \* (README "Forcing re-encryption"); main.go never reads it
    cfg,        \* cfg[s]: the session's config (lock, readOnly)
    enc,        \* the encrypted file at cfg.encPath
    pc,         \* pc[s]: where the main goroutine of s is
    result,     \* result[s]: what edit() returned ("none" before it returns)
    exists,     \* exists[s]: checkAccess's first result
    lockHeld,   \* lockHeld[s]: s holds the flock on the encrypted file
    tempDir,    \* tempDir[d]: the random subdirectory d exists
    tempFile,   \* tempFile[d]: the plaintext temp file in d
    beforeSum,  \* beforeSum[s]: the last-saved digest
    initSum,    \* initSum[s]: the digest taken right after decryption
    mu,         \* mu[s]: who holds the session's mutex
    sv,         \* sv[s][a]: activity a's call of saveChanges
    lpc,        \* lpc[s]: the listener goroutine
    sigArmed,   \* sigArmed[s]: signal.Notify is in force for the channel
    sigBuf,     \* sigBuf[s]: signals waiting in the channel (capacity 1)
    eventsLeft, \* editor writes and signal deliveries still allowed by the bound
    prompted,   \* prompted[s]: cli's "Press <Enter>" prompt has been answered
    signalled,  \* signalled[s]: a SIGUSR1 has reached the process (history)
    hist,       \* hist[s]: a signal has arrived after the disarming (late),
                \* the last save called by the listener failed (failed) (history)
    trig        \* trig[s]: the temp file as it was when the signal now in the
                \* channel (buf) or now being handled (cur) was delivered
                \* with the editor running (history)

vars == <<umask, mode, userDir, rand, ids, readers, call, force, cfg, enc, pc, result, exists, lockHeld, tempDir, tempFile, beforeSum,
          initSum, mu, sv, lpc, sigArmed, sigBuf, eventsLeft, prompted,
          signalled, hist, trig>>

(* --------------------------- pure functions --------------------------- *)

\* A checksumFile for which a missing file hashes like no file's content.
checksumFileMissingDiffers(f) == [blake3 |-> IF f.st = "absent" THEN 0 - 1 ELSE f.data]

\* checksumFile: BLAKE3 of the file; a missing file hashes like an empty one.
checksumFile(f) == [blake3 |-> IF f.st = "absent" THEN 0 ELSE f.data]

\* A checkAccess that does not try opening for writing.
checkAccessReadOnly(present, readable, writable, readOnly) ==
    IF ~present
    THEN [exists |-> FALSE, err |-> readOnly]
    ELSE [exists |-> TRUE, err |-> ~readable]

\* checkAccess(path, readOnly), given what the file system answers.
checkAccess(present, readable, writable, readOnly) ==
    IF ~present
    THEN [exists |-> FALSE, err |-> readOnly]
    ELSE IF ~readable
    THEN [exists |-> TRUE, err |-> TRUE]
    ELSE IF ~readOnly /\ ~writable
    THEN [exists |-> TRUE, err |-> TRUE]
    ELSE [exists |-> TRUE, err |-> FALSE]

\* An edit that returns the directory only with a nil error.
ReturnsTempDirOnSuccess(res) == res = "Success"

\* An edit that returns "" for the directory when MkdirAll fails, too.
ReturnsTempDirOnceMade(res) ==
    res \notin {"AccessError", "IdentityError", "UserError", "WorkspaceError"}

\* edit returns "" for the directory when it fails before MkdirAll.
ReturnsTempDir(res) == res \notin {"AccessError", "IdentityError", "UserError"}

IdleSave == [phase |-> "idle", cur |-> checksumFile(NoFile), src |-> 0]

\* The two sessions are interchangeable: of two starts that differ only by
\* swapping them, one is kept.
CfgRank(c) == (IF c.lock THEN 2 ELSE 0) + (IF c.readOnly THEN 1 ELSE 0)

\* The string ".age".
AgeSuffix == <<".", "a", "g", "e">>

\* strings.HasSuffix
HasSuffix(str, suffix) ==
    /\ Len(str) >= Len(suffix)
    /\ SubSeq(str, Len(str) - Len(suffix) + 1, Len(str)) = suffix

\* strings.TrimSuffix
TrimSuffix(str, suffix) ==
    IF HasSuffix(str, suffix) THEN SubSeq(str, 1, Len(str) - Len(suffix)) ELSE str

\* main.go:193-195
getRoot(path) == TrimSuffix(path, AgeSuffix)

\* path/filepath.Base, called at main.go:329: the last element of the path,
\* trailing slashes removed first; "." for the empty path and "/" for a path
\* of slashes only.
RECURSIVE TrimSlashes(_)
TrimSlashes(path) ==
    IF path # <<>> /\ path[Len(path)] = "/"
    THEN TrimSlashes(SubSeq(path, 1, Len(path) - 1))
    ELSE path

RECURSIVE LastElement(_)
LastElement(path) ==
    IF path = <<>> \/ path[Len(path)] = "/" THEN <<>>
    ELSE Append(LastElement(SubSeq(path, 1, Len(path) - 1)), path[Len(path)])

Base(path) ==
    IF path = <<>> THEN <<".">>
    ELSE IF TrimSlashes(path) = <<>> THEN <<"/">>
    ELSE LastElement(TrimSlashes(path))

\* path/filepath.Join, called at main.go:329 with a directory and one
\* element: the cleaned path, where an empty element, "." and "/" add
\* nothing and ".." takes the last directory away.
Join(dir, elem) ==
    IF elem \in {<<>>, <<".">>, <<"/">>} THEN dir
    ELSE IF elem = <<".", ".">> THEN SubSeq(dir, 1, Len(dir) - 1)
    ELSE Append(dir, elem)

\* main.go:328-329: the path of the temp file in directory dir.
tempFilePath(dir, encPath) == Join(dir, Base(getRoot(encPath)))

\* Permissions are sets of permission bits; a path that does not exist has
\* none.
NoPerm == {}

\* main.go:39-41.
filePerm == {"ur", "uw"}
fileReadOnlyPerm == {"ur"}
tempDirPerm == {"ur", "uw", "ux"}

\* main.go:120: os.Create asks for mode 0666.
CreatePerm == {"ur", "uw", "gr", "gw", "or", "ow"}

\* The masks a process can run under that leave the owner's bits alone.
Umasks == SUBSET {"gr", "gw", "or", "ow"}

\* open(2), mkdir(2): a path is created with the permission asked for less
\* the bits of the process's mask.
Created(perm) == perm \ umask

\* main.go:185-190: the values randomID can return.
RandomIDs == 1 .. NumIDs

\* main.go:319-322: the directories edit can name, for one prefix, user and
\* host: {prefix}/age-edit-{user}@{host}/{random id}.
TempDirs == {<<"prefix", "age-edit-user@host", r>> : r \in RandomIDs}

\* A workspace path that leaves the random identifier out.
TempDirPathNoRandom(s) == <<"prefix", "age-edit-user@host", 1>>

\* main.go:319-322: the workspace directory of session s.
TempDirPath(s) == <<"prefix", "age-edit-user@host", rand[s]>>

\* Identities are 1 .. NumKeys.
Keys == 1 .. NumKeys

\* main.go:284: identity.Recipient(), the public key of a private key.
Recipient(k) == [pub |-> k]

\* A loadIdentities that keeps the first identity's recipient only.
RecipientsFirstOnly(idset) ==
    IF idset = {} THEN {}
    ELSE {Recipient(CHOOSE k \in idset : \A o \in idset : k <= o)}

\* main.go:271-285: the recipients loadIdentities returns with the identities.
Recipients(idset) == {Recipient(k) : k \in idset}

\* age.Decrypt: one of the identities must match a recipient of the file.
CanDecrypt(idset) == \E k \in idset : Recipient(k) \in readers

\* The filter commands: none, a compressor and its inverse.
Filters == {"", "gzip", "gzip -d"}

\* What a reader or a file holds: a plaintext under so many layers of
\* compression.
Data(c) == [z |-> 0, plain |-> c]

\* The outcome of reading through a failing stage.
Failed == [err |-> TRUE, z |-> 0, plain |-> 0]

\* main.go:132-144: runFilter copies its input when there is no command; the
\* compressor adds a layer, its inverse takes one off and fails on input
\* that has none.
runFilter(cmd, in) ==
    IF cmd = "" THEN [err |-> FALSE, z |-> in.z, plain |-> in.plain]
    ELSE IF cmd = "gzip" THEN [err |-> FALSE, z |-> in.z + 1, plain |-> in.plain]
    ELSE IF in.z > 0 THEN [err |-> FALSE, z |-> in.z - 1, plain |-> in.plain]
    ELSE Failed

\* main.go:163-182: encryptToFile writes the age header for the recipients,
\* the filtered input as payload and, when the writers are closed, the final
\* chunk; armored, all of it between the armor's header and footer.
encryptToFile(in, armored, encodeCmd, recipients) ==
    LET filtered == runFilter(encodeCmd, in)
    IN [err |-> filtered.err,
        armor |-> armored,
        footer |-> armored,
        rcpts |-> recipients,
        z |-> filtered.z,
        plain |-> filtered.plain,
        final |-> ~filtered.err]

\* A wrapDecrypt that takes every file for a binary one.
ArmorDetectedNever(file) == FALSE

\* main.go:91-103: the file starts with the armor header.
ArmorDetected(file) == file.armor

\* main.go:88-109: wrapDecrypt takes the armor off a file that starts with
\* its header and decrypts: an identity must match a recipient, and the
\* payload must end with its final chunk (and the armor with its footer).
wrapDecrypt(file, identities) ==
    LET armored == ArmorDetected(file)
    IN IF file.armor # armored THEN Failed
       ELSE IF armored /\ ~file.footer THEN Failed
       ELSE IF ~\E k \in identities : Recipient(k) \in file.rcpts THEN Failed
       ELSE IF ~file.final THEN Failed
       ELSE [err |-> FALSE, z |-> file.z, plain |-> file.plain]

\* main.go:149-158: decryptToFile runs the decode filter over what
\* wrapDecrypt reads.
decryptToFile(file, decodeCmd, identities) ==
    LET d == wrapDecrypt(file, identities)
    IN IF d.err THEN Failed ELSE runFilter(decodeCmd, d)

\* strings.TrimSpace on a line of tokens: spaces off both ends.
RECURSIVE TrimSpace(_)
TrimSpace(line) ==
    IF line = <<>> THEN line
    ELSE IF Head(line) = " " THEN TrimSpace(Tail(line))
    ELSE IF line[Len(line)] = " " THEN TrimSpace(SubSeq(line, 1, Len(line) - 1))
    ELSE line

\* The text of the private key of identity k, as one token.
KeyText(k) == IF k = 1 THEN "key1" ELSE IF k = 2 THEN "key2" ELSE "key3"

\* age.ParseX25519Identity (main.go:279): the line is the text of one key.
Parses(line) == \E k \in Keys : line = <<KeyText(k)>>
ParsedKey(line) == CHOOSE k \in Keys : line = <<KeyText(k)>>

\* A loadIdentities that skips blank lines only.
IgnoredBlankOnly(line) == line = <<>>

\* main.go:272-274: a trimmed line that is empty or starts with "#" is
\* skipped.
Ignored(line) == line = <<>> \/ Head(line) = "#"

\* main.go:270-285: the loop over the lines from line i on, given the count
\* of lines not skipped and the identities and recipients so far.
RECURSIVE LoadFrom(_, _, _, _, _)
LoadFrom(lines, i, identityCount, identities, recipients) ==
    IF i > Len(lines)
    THEN [err |-> "", number |-> 0, identities |-> identities, recipients |-> recipients]
    ELSE LET line == TrimSpace(lines[i])
         IN IF Ignored(line)
            THEN LoadFrom(lines, i + 1, identityCount, identities, recipients)
            ELSE IF ~Parses(line)
            THEN [err |-> "failed to parse private key", number |-> identityCount + 1,
                  identities |-> <<>>, recipients |-> <<>>]
            ELSE LoadFrom(lines, i + 1, identityCount + 1,
                          Append(identities, ParsedKey(line)),
                          Append(recipients, Recipient(ParsedKey(line))))

\* main.go:259-292
loadIdentities(lines) ==
    LET r == LoadFrom(lines, 1, 0, <<>>, <<>>)
    IN IF r.err = "" /\ Len(r.identities) = 0
       THEN [r EXCEPT !.err = "no identities found in file"]
       ELSE r

\* main.go:31-32
exitOK == 0
exitError == 1

\* main.go:750, 760: cli reads the clock in whole seconds before it calls
\* edit and again after edit has returned, and warns when the threshold is
\* positive and the difference is at most the threshold.
warns(warn, start, now) == warn > 0 /\ now - start <= warn

\* main.go:768-785: cli's exit code is exitError when edit returned an error.
exitCode(failed) == IF failed THEN exitError ELSE exitOK

\* No pure function is being called by itself.
NoCall == [fn |-> "none", in |-> <<>>, done |-> FALSE, out |-> <<>>]

(* -------------------------------- Init -------------------------------- *)

\* The encrypted file at the start: absent, or an age file of an empty or of
\* a non-empty plaintext (the non-empty plaintexts are interchangeable).

\* Nothing is in the temp directory prefix yet.
NoWorkspace ==
    /\ userDir = FALSE
    /\ mode = [user |-> NoPerm,
               dirs |-> [d \in TempDirs |-> NoPerm],
               files |-> [d \in TempDirs |-> NoPerm]]

\* The customary mask: no write permission for group and others.
UsualUmask == umask = {"gw", "ow"}

\* The sessions draw random identifiers that differ.
DistinctDraws == rand = [s \in Sessions |-> IF s = "s1" THEN 1 ELSE NumIDs]

\* Every session has the one identity the encrypted file was made for.
OneKey ==
    /\ ids = [s \in Sessions |-> {1}]
    /\ readers = IF enc = NoEnc THEN {} ELSE Recipients({1})

InitCommon ==
    /\ NoWorkspace
    /\ enc \in {NoEnc, Age(0), Age(MaxContent)}
    /\ result = [s \in Sessions |-> "none"]
    /\ exists = [s \in Sessions |-> FALSE]
    /\ lockHeld = [s \in Sessions |-> FALSE]
    /\ tempDir = [d \in TempDirs |-> FALSE]
    /\ tempFile = [d \in TempDirs |-> NoFile]
    /\ beforeSum = [s \in Sessions |-> checksumFile(NoFile)]
    /\ initSum = [s \in Sessions |-> checksumFile(NoFile)]
    /\ mu = [s \in Sessions |-> "none"]
    /\ sv = [s \in Sessions |-> [a \in Activities |-> IdleSave]]
    /\ lpc = [s \in Sessions |-> "none"]
    /\ sigArmed = [s \in Sessions |-> FALSE]
    /\ sigBuf = [s \in Sessions |-> 0]
    /\ prompted = [s \in Sessions |-> FALSE]
    /\ signalled = [s \in Sessions |-> FALSE]
    /\ trig = [s \in Sessions |-> [buf |-> NoTrigger, cur |-> NoTrigger]]
    /\ hist = [s \in Sessions |-> [late |-> FALSE, failed |-> FALSE]]

\* Two sessions started on the same encrypted file.
Init ==
    /\ InitCommon
    /\ cfg \in [Sessions -> Configs]
    /\ CfgRank(cfg["s1"]) <= CfgRank(cfg["s2"])
    /\ call = NoCall
    /\ OneKey
    /\ DistinctDraws
    /\ UsualUmask
    /\ force = [s \in Sessions |-> FALSE]
    /\ pc = [s \in Sessions |-> "checkAccess"]
    /\ eventsLeft = DuoEvents

\* One session on the encrypted file; the other is never started.
InitSolo ==
    /\ InitCommon
    /\ cfg \in {c \in [Sessions -> Configs] : c["s2"] = [lock |-> TRUE, readOnly |-> FALSE]}
    /\ call = NoCall
    /\ OneKey
    /\ DistinctDraws
    /\ UsualUmask
    /\ force \in {f \in [Sessions -> BOOLEAN] : ~f["s2"]}
    /\ pc = [s \in Sessions |-> IF s = "s1" THEN "checkAccess" ELSE "off"]
    /\ eventsLeft = SoloEvents

(* ------------------------- edit(): returning -------------------------- *)

\* An edit that returns without unlocking.
AfterStopNoUnlock(s) == "cli"

\* Where the main goroutine goes when edit returns: the deferred stop()
\* (registered by line 390), then the deferred Unlock (line 345), then cli.
AfterStop(s) == IF lockHeld[s] THEN "deferUnlock" ELSE "cli"

\* An edit that returns without the deferred stop().
ReturnPcNoStop(s) == AfterStop(s)

ReturnPc(s) == IF lpc[s] # "none" THEN "deferStop" ELSE AfterStop(s)

Return(s, res) ==
    /\ result' = [result EXCEPT ![s] = res]
    /\ pc' = [pc EXCEPT ![s] = ReturnPc(s)]

(* --------------------------- edit(): set-up --------------------------- *)

\* main.go:299-302
CheckAccess(s) ==
    /\ pc[s] = "checkAccess"
    /\ \E readable, writable \in BOOLEAN :
         LET r == checkAccess(enc.st # "absent", readable, writable, cfg[s].readOnly)
         IN /\ exists' = [exists EXCEPT ![s] = r.exists]
            /\ IF r.err
               THEN Return(s, "AccessError")
               ELSE /\ pc' = [pc EXCEPT ![s] = "loadIdentities"]
                    /\ UNCHANGED result
    /\ UNCHANGED <<call, umask, mode, userDir, rand, ids, readers, force, hist, cfg, enc, lockHeld, tempDir, tempFile, beforeSum, initSum, mu,
                   sv, lpc, sigArmed, sigBuf, eventsLeft, prompted, signalled, trig>>

\* main.go:304-317: the identities file, then the user and host names.
LoadIdentities(s) ==
    /\ pc[s] = "loadIdentities"
    /\ \/ /\ ids[s] # {}
          /\ pc' = [pc EXCEPT ![s] = "mkdir"]
          /\ UNCHANGED result
       \/ Return(s, "IdentityError")
       \/ Return(s, "UserError")
    /\ UNCHANGED <<call, umask, mode, userDir, rand, ids, readers, force, hist, cfg, enc, exists, lockHeld, tempDir, tempFile, beforeSum, initSum,
                   mu, sv, lpc, sigArmed, sigBuf, eventsLeft, prompted, signalled, trig>>

\* main.go:319-326
PrepareWorkspace(s) ==
    /\ pc[s] = "mkdir"
    /\ \/ /\ tempDir' = [tempDir EXCEPT ![TempDirPath(s)] = TRUE]
          /\ userDir' = TRUE
          /\ mode' = [mode EXCEPT
                         !.user = IF userDir THEN @ ELSE Created(tempDirPerm),
                         !.dirs[TempDirPath(s)] =
                             IF tempDir[TempDirPath(s)] THEN @
                             ELSE Created(tempDirPerm)]
          /\ pc' = [pc EXCEPT ![s] = "tryLock"]
          /\ UNCHANGED result
       \/ /\ Return(s, "WorkspaceError")
          /\ UNCHANGED <<tempDir, userDir, mode>>
    /\ UNCHANGED <<call, umask, rand, ids, readers, force, hist, cfg, enc, exists, lockHeld, tempFile, beforeSum, initSum, mu,
                   sv, lpc, sigArmed, sigBuf, eventsLeft, prompted, signalled, trig>>

\* A lock taken for every existing encrypted file, whatever the flags.
NeedsLockWhateverFlags(s) == exists[s]

\* main.go:334-335: the lock is tried only for an encrypted file that exists,
\* with locking enabled and not in read-only mode.
NeedsLock(s) == exists[s] /\ cfg[s].lock /\ ~cfg[s].readOnly

\* A TryLock that is granted whoever holds the lock.
TryLockAlwaysGranted(s) == TRUE

\* flock's TryLock on the encrypted file: granted unless another session
\* holds the lock.
TryLock(s) == \A o \in Sessions \ {s} : ~lockHeld[o]

\* main.go:331-348
AcquireLock(s) ==
    /\ pc[s] = "tryLock"
    /\ IF ~NeedsLock(s)
       THEN /\ pc' = [pc EXCEPT ![s] = IF exists[s] THEN "decrypt" ELSE "checksum"]
            /\ UNCHANGED <<result, lockHeld>>
       ELSE \/ /\ Return(s, "LockError")
               /\ UNCHANGED lockHeld
            \/ IF TryLock(s)
               THEN /\ lockHeld' = [lockHeld EXCEPT ![s] = TRUE]
                    /\ pc' = [pc EXCEPT ![s] = "decrypt"]
                    /\ UNCHANGED result
               ELSE /\ Return(s, "LockedError")
                    /\ UNCHANGED lockHeld
    /\ UNCHANGED <<call, umask, mode, userDir, rand, ids, readers, force, hist, cfg, enc, exists, tempDir, tempFile, beforeSum, initSum, mu,
                   sv, lpc, sigArmed, sigBuf, eventsLeft, prompted, signalled, trig>>

\* main.go:120: os.Create needs the directory and, of a temp file that is
\* there already, the owner's write permission.
CanCreate(s) ==
    /\ tempDir[TempDirPath(s)]
    /\ tempFile[TempDirPath(s)].st = "file" => "uw" \in mode.files[TempDirPath(s)]

\* main.go:120: os.Create makes the file with mode 0666 less the mask, and
\* leaves the mode of a file that is there already.
OsCreate(s) ==
    IF tempFile[TempDirPath(s)].st = "file" THEN mode.files[TempDirPath(s)]
    ELSE Created(CreatePerm)

\* A decryption with the two paths swapped: a failure leaves the encrypted
\* file truncated.
DecryptTruncates(s) ==
    /\ pc[s] = "decrypt"
    /\ \/ /\ enc.st = "age"
          /\ CanDecrypt(ids[s])
          /\ CanCreate(s)
          /\ tempFile' = [tempFile EXCEPT ![TempDirPath(s)] = File(enc.plain)]
          /\ mode' = [mode EXCEPT !.files[TempDirPath(s)] = OsCreate(s)]
          /\ pc' = [pc EXCEPT ![s] = "checksum"]
          /\ UNCHANGED <<result, enc>>
       \/ /\ CanCreate(s)
          /\ tempFile' = [tempFile EXCEPT ![TempDirPath(s)] = File(0)]
          /\ mode' = [mode EXCEPT !.files[TempDirPath(s)] = OsCreate(s)]
          /\ enc' = Partial
          /\ Return(s, "DecryptError")
       \/ /\ ~CanCreate(s)
          /\ UNCHANGED <<tempFile, mode, enc>>
          /\ Return(s, "DecryptError")
    /\ UNCHANGED <<call, umask, userDir, rand, ids, readers, force, hist, cfg, exists, lockHeld, tempDir, beforeSum, initSum, mu,
                   sv, lpc, sigArmed, sigBuf, eventsLeft, prompted, signalled, trig>>

\* decryptToFile (main.go:149-158, 113-127, 92-109) called at main.go:350-352.
\* os.Create makes the temp file; decryption needs a complete age file and a
\* matching identity, and the decode filter may fail.
Decrypt(s) ==
    /\ pc[s] = "decrypt"
    /\ \/ /\ enc.st = "age"
          /\ CanDecrypt(ids[s])
          /\ CanCreate(s)
          /\ tempFile' = [tempFile EXCEPT ![TempDirPath(s)] = File(enc.plain)]
          /\ mode' = [mode EXCEPT !.files[TempDirPath(s)] = OsCreate(s)]
          /\ pc' = [pc EXCEPT ![s] = "checksum"]
          /\ UNCHANGED result
       \/ /\ CanCreate(s)
          /\ tempFile' = [tempFile EXCEPT ![TempDirPath(s)] = File(0)]
          /\ mode' = [mode EXCEPT !.files[TempDirPath(s)] = OsCreate(s)]
          /\ Return(s, "DecryptError")
       \/ /\ ~CanCreate(s)
          /\ UNCHANGED <<tempFile, mode>>
          /\ Return(s, "DecryptError")
    /\ UNCHANGED <<call, umask, userDir, rand, ids, readers, force, hist, cfg, enc, exists, lockHeld, tempDir, beforeSum, initSum, mu,
                   sv, lpc, sigArmed, sigBuf, eventsLeft, prompted, signalled, trig>>

\* main.go:388: the eager save is armed unless read-only.
ArmsEagerSave(s) == ~cfg[s].readOnly

\* main.go:355-358
Checksum(s) ==
    /\ pc[s] = "checksum"
    /\ \/ /\ beforeSum' = [beforeSum EXCEPT ![s] = checksumFile(tempFile[TempDirPath(s)])]
          /\ initSum' = [initSum EXCEPT ![s] = checksumFile(tempFile[TempDirPath(s)])]
          /\ pc' = [pc EXCEPT ![s] = IF cfg[s].readOnly THEN "chmod"
                                   ELSE IF ArmsEagerSave(s) THEN "handleSignals"
                                   ELSE "runEditor"]
          /\ UNCHANGED result
       \/ /\ tempFile[TempDirPath(s)].st = "file"
          /\ Return(s, "ChecksumError")
          /\ UNCHANGED <<beforeSum, initSum>>
    /\ UNCHANGED <<call, umask, mode, userDir, rand, ids, readers, force, hist, cfg, enc, exists, lockHeld, tempDir, tempFile, mu,
                   sv, lpc, sigArmed, sigBuf, eventsLeft, prompted, signalled, trig>>

\* A read-only mode that leaves the temp file's permission as it is.
ChmodKeepsMode(s) ==
    /\ pc[s] = "chmod"
    /\ \/ /\ tempFile[TempDirPath(s)].st = "file"
          /\ pc' = [pc EXCEPT ![s] = IF ArmsEagerSave(s) THEN "handleSignals"
                                   ELSE "runEditor"]
          /\ UNCHANGED result
       \/ Return(s, "ChmodError")
    /\ UNCHANGED <<call, umask, mode, userDir, rand, ids, readers, force, hist, cfg, enc, exists,
                   lockHeld, tempDir, tempFile, beforeSum, initSum, mu, sv, lpc,
                   sigArmed, sigBuf, eventsLeft, prompted, signalled, trig>>

\* main.go:360-364 (reached in read-only mode only)
Chmod(s) ==
    /\ pc[s] = "chmod"
    /\ \/ /\ tempFile[TempDirPath(s)].st = "file"
          /\ mode' = [mode EXCEPT !.files[TempDirPath(s)] = fileReadOnlyPerm]
          /\ pc' = [pc EXCEPT ![s] = IF ArmsEagerSave(s) THEN "handleSignals"
                                   ELSE "runEditor"]
          /\ UNCHANGED result
       \/ /\ Return(s, "ChmodError")
          /\ UNCHANGED mode
    /\ UNCHANGED userDir
    /\ UNCHANGED <<call, umask, rand, ids, readers, force, hist, cfg, enc, exists, lockHeld, tempDir, tempFile, beforeSum, initSum,
                   mu, sv, lpc, sigArmed, sigBuf, eventsLeft, prompted, signalled, trig>>

\* main.go:388-391, signal_unix.go:16-26: Notify on a channel of capacity 1
\* and start the listener goroutine (reached when not read-only only).
HandleSignals(s) ==
    /\ pc[s] = "handleSignals"
    /\ sigArmed' = [sigArmed EXCEPT ![s] = TRUE]
    /\ lpc' = [lpc EXCEPT ![s] = "wait"]
    /\ pc' = [pc EXCEPT ![s] = "runEditor"]
    /\ UNCHANGED <<call, umask, mode, userDir, rand, ids, readers, force, hist, cfg, enc, result, exists, lockHeld, tempDir, tempFile, beforeSum,
                   initSum, mu, sv, sigBuf, eventsLeft, prompted, signalled, trig>>

(* ----------------------------- the editor ----------------------------- *)

\* main.go:393-403: cmd.Run starts the editor, or fails to.
RunEditor(s) ==
    /\ pc[s] = "runEditor"
    /\ \/ /\ pc' = [pc EXCEPT ![s] = "waitEditor"]
          /\ UNCHANGED result
       \/ Return(s, "EditorError")
    /\ UNCHANGED <<call, umask, mode, userDir, rand, ids, readers, force, hist, cfg, enc, exists, lockHeld, tempDir, tempFile, beforeSum, initSum,
                   mu, sv, lpc, sigArmed, sigBuf, eventsLeft, prompted, signalled, trig>>

\* The editor is running while the main goroutine waits in cmd.Run.
EditorRunning(s) == pc[s] = "waitEditor"

\* The permission the editor can leave the temp file with when it makes the
\* file f of it: none for a file it deletes, the mode of a new file for one
\* it creates, the mode as it was for one it writes in place; a file without
\* write permission it can only replace, with a new file's mode or with the
\* old one put back.
EditorPerms(s, f) ==
    LET old == mode.files[TempDirPath(s)]
    IN IF f.st = "absent" THEN {NoPerm}
       ELSE IF tempFile[TempDirPath(s)].st = "absent" THEN {Created(CreatePerm)}
       ELSE IF "uw" \in old THEN {old}
       ELSE {old, Created(CreatePerm)}

\* The editor (a child process) rewrites, creates or deletes the temp file.
EditorWrite(s) ==
    /\ EditorRunning(s)
    /\ eventsLeft > 0
    /\ tempDir[TempDirPath(s)]
    /\ \E f \in TempFiles :
         /\ f # tempFile[TempDirPath(s)]
         /\ tempFile' = [tempFile EXCEPT ![TempDirPath(s)] = f]
         /\ \E perm \in EditorPerms(s, f) :
                mode' = [mode EXCEPT !.files[TempDirPath(s)] = perm]
    /\ eventsLeft' = eventsLeft - 1
    /\ UNCHANGED userDir
    /\ UNCHANGED <<call, umask, rand, ids, readers, force, hist, cfg, enc, pc, result, exists, lockHeld, tempDir, beforeSum,
                   initSum, mu, sv, lpc, sigArmed, sigBuf, prompted, signalled, trig>>

\* A final save that runs in read-only mode too.
SavesOnExitAlways(s) == TRUE

\* main.go:405: the final save runs unless read-only.
SavesOnExit(s) == ~cfg[s].readOnly

\* main.go:401-409: the editor exits and cmd.Run returns.  A non-zero status
\* returns the error; otherwise, unless read-only, saveChanges is called.
EditorExit(s) ==
    /\ EditorRunning(s)
    /\ \/ /\ Return(s, "EditorError")
          /\ UNCHANGED sv
       \/ IF ~SavesOnExit(s)
          THEN /\ Return(s, "Success")
               /\ UNCHANGED sv
          ELSE /\ pc' = [pc EXCEPT ![s] = "saveChanges"]
               /\ sv' = [sv EXCEPT ![s]["main"].phase = "enter"]
               /\ UNCHANGED result
    /\ UNCHANGED <<call, umask, mode, userDir, rand, ids, readers, force, hist, cfg, enc, exists, lockHeld, tempDir, tempFile, beforeSum, initSum,
                   mu, lpc, sigArmed, sigBuf, eventsLeft, prompted, signalled, trig>>

(* ---------------------------- saveChanges ---------------------------- *)

\* signal_unix.go:28-31: stop() has run: signal.Stop(c) and close(c).
Disarmed(s) == lpc[s] # "none" /\ ~sigArmed[s]

\* The process of s runs until cli returns and main calls os.Exit; the
\* listener goroutine ends with it.
Alive(s) == pc[s] \notin {"off", "exited"}

\* A Lock that does not exclude.
MutexAlwaysFree(s) == TRUE

\* sync.Mutex: Lock succeeds when nobody holds the mutex.
MutexFree(s) == mu[s] = "none"

\* A saveChanges that returns with the mutex still locked.
FinishKeepsMutex(s, a, err) ==
    /\ UNCHANGED mu
    /\ sv' = [sv EXCEPT ![s][a] = IdleSave]
    /\ IF a = "main"
       THEN /\ Return(s, IF err THEN "SaveError" ELSE "Success")
            /\ UNCHANGED <<trig, hist>>
       ELSE /\ trig' = [trig EXCEPT ![s].cur = NoTrigger]
            /\ hist' = [hist EXCEPT ![s].failed = err]
            /\ UNCHANGED <<pc, result>>

\* A listener whose failed save ends the session's edit with a save error.
FinishFatal(s, a, err) ==
    /\ mu' = [mu EXCEPT ![s] = "none"]
    /\ sv' = [sv EXCEPT ![s][a] = IdleSave]
    /\ IF a = "main"
       THEN /\ Return(s, IF err THEN "SaveError" ELSE "Success")
            /\ UNCHANGED <<trig, hist>>
       ELSE /\ trig' = [trig EXCEPT ![s].cur = NoTrigger]
            /\ hist' = [hist EXCEPT ![s].failed = err]
            /\ result' = [result EXCEPT ![s] = IF err THEN "SaveError" ELSE @]
            /\ UNCHANGED pc

\* saveChanges returns: the deferred mu.Unlock, then back to the caller.  The
\* main goroutine wraps an error as saveError and returns from edit
\* (main.go:405-411); the listener prints it and waits for the next signal
\* (signal_unix.go:21-25).
Finish(s, a, err) ==
    /\ mu' = [mu EXCEPT ![s] = "none"]
    /\ sv' = [sv EXCEPT ![s][a] = IdleSave]
    /\ IF a = "main"
       THEN /\ Return(s, IF err THEN "SaveError" ELSE "Success")
            /\ UNCHANGED <<trig, hist>>
       ELSE /\ trig' = [trig EXCEPT ![s].cur = NoTrigger]
            /\ hist' = [hist EXCEPT ![s].failed = err]
            /\ UNCHANGED <<pc, result>>

\* main.go:369
SaveLock(s, a) ==
    /\ Alive(s)
    /\ sv[s][a].phase = "enter"
    /\ MutexFree(s)
    /\ mu' = [mu EXCEPT ![s] = a]
    /\ sv' = [sv EXCEPT ![s][a].phase = "locked"]
    /\ UNCHANGED <<call, umask, mode, userDir, rand, ids, readers, force, hist, cfg, enc, pc, result, exists, lockHeld, tempDir, tempFile,
                   beforeSum, initSum, lpc, sigArmed, sigBuf, eventsLeft,
                   prompted, signalled, trig>>

\* main.go:372-375
SaveChecksum(s, a) ==
    /\ Alive(s)
    /\ sv[s][a].phase = "locked"
    /\ \/ /\ sv' = [sv EXCEPT ![s][a].phase = "summed",
                              ![s][a].cur = checksumFile(tempFile[TempDirPath(s)])]
          /\ UNCHANGED <<mu, pc, result, trig, hist>>
       \/ /\ tempFile[TempDirPath(s)].st = "file"
          /\ Finish(s, a, TRUE)
    /\ UNCHANGED <<call, umask, mode, userDir, rand, ids, readers, force, cfg, enc, exists, lockHeld, tempDir, tempFile, beforeSum, initSum,
                   lpc, sigArmed, sigBuf, eventsLeft, prompted, signalled>>

\* A save that encrypts whatever the digests.
MustEncryptAlways(s, a) == TRUE

\* A save that never finds a difference.
MustEncryptNever(s, a) == FALSE

\* main.go:377: encrypt only when the digest differs from the last-saved one.
MustEncrypt(s, a) == sv[s][a].cur # beforeSum[s]

\* A withFiles that creates the output file before it opens the input.
OutputCreatedFirst(out) == Partial

\* withFiles (main.go:114-119): os.Open of a missing input returns before
\* os.Create is reached, so the output file stays as it is.
OutputAfterFailedOpen(out) == out

\* main.go:377-378 and withFiles (main.go:113-124): compare the digests; if
\* they differ open the temp file, then create (truncate) the encrypted file.
SaveOpen(s, a) ==
    /\ Alive(s)
    /\ sv[s][a].phase = "summed"
    /\ IF ~MustEncrypt(s, a)
       THEN /\ Finish(s, a, FALSE)
            /\ UNCHANGED enc
       ELSE IF tempFile[TempDirPath(s)].st = "absent"
       THEN /\ Finish(s, a, TRUE)
            /\ enc' = OutputAfterFailedOpen(enc)
       ELSE \/ /\ Finish(s, a, TRUE)
               /\ UNCHANGED enc
            \/ /\ enc' = Partial
               /\ sv' = [sv EXCEPT ![s][a].phase = "created",
                                   ![s][a].src = tempFile[TempDirPath(s)].data]
               /\ UNCHANGED <<mu, pc, result, trig, hist>>
    /\ UNCHANGED <<call, umask, mode, userDir, rand, ids, readers, force, cfg, exists, lockHeld, tempDir, tempFile, beforeSum, initSum,
                   lpc, sigArmed, sigBuf, eventsLeft, prompted, signalled>>

\* What the copy reads through the open input file: the file as opened, or
\* what the editor has written into it since.
Readable(s, a) ==
    {sv[s][a].src} \cup (IF tempFile[TempDirPath(s)].st = "file" THEN {tempFile[TempDirPath(s)].data} ELSE {})

\* A save that records its digest whether or not the encryption failed.
LastSavedRegardless(s, a, failed) == sv[s][a].cur

\* main.go:378-383: the last-saved digest after encryptToFile has returned:
\* the digest of this save, unless an error was returned.
LastSaved(s, a, failed) == IF failed THEN beforeSum[s] ELSE sv[s][a].cur

\* encryptToFile's action (main.go:164-181) and main.go:378-383: the plaintext
\* is copied through the encode filter and the encryption into the encrypted
\* file.  An error of the copy is returned; the writers and the file are
\* closed by defers whose errors are dropped (main.go:124, 169, 178), so a
\* ciphertext cut short at close still counts as saved.
SaveWrite(s, a) ==
    /\ Alive(s)
    /\ sv[s][a].phase = "created"
    /\ \/ \E data \in Readable(s, a) :
            /\ enc' = Age(data)
            /\ readers' = Recipients(ids[s])
            /\ beforeSum' = [beforeSum EXCEPT ![s] = LastSaved(s, a, FALSE)]
            /\ Finish(s, a, FALSE)
       \/ /\ enc' = Partial
          /\ UNCHANGED readers
          /\ beforeSum' = [beforeSum EXCEPT ![s] = LastSaved(s, a, TRUE)]
          /\ Finish(s, a, TRUE)
       \/ /\ enc' = Partial
          /\ UNCHANGED readers
          /\ beforeSum' = [beforeSum EXCEPT ![s] = LastSaved(s, a, FALSE)]
          /\ Finish(s, a, FALSE)
    /\ UNCHANGED <<call, umask, mode, userDir, rand, ids, force, cfg, exists, lockHeld, tempDir, tempFile, initSum,
                   lpc, sigArmed, sigBuf, eventsLeft, prompted, signalled>>

(* --------------------- SIGUSR1 and the listener ----------------------- *)

\* A channel that is sent every signal, stopped or not.
NotifiedAlways(s) == TRUE

\* signal_unix.go:18, 29: the channel is sent the signal from signal.Notify
\* until signal.Stop.
Notified(s) == sigArmed[s]

\* A channel that takes every signal.
SendUnbounded(n) == n + 1

\* signal_unix.go:17-18: os/signal's non-blocking send on the channel made
\* with capacity 1, holding n signals: a signal that finds it full is dropped.
Send(n) == IF n < 1 THEN n + 1 ELSE n

\* A SIGUSR1 reaches the process.  With Notify in force the runtime does a
\* non-blocking send on the channel (capacity 1): a signal that finds the
\* buffer full is dropped.  Without Notify the signal is ignored.
Signal(s) ==
    /\ Alive(s)
    /\ eventsLeft > 0
    /\ eventsLeft' = eventsLeft - 1
    /\ sigBuf' = [sigBuf EXCEPT ![s] = IF Notified(s) THEN Send(@) ELSE @]
    /\ signalled' = [signalled EXCEPT ![s] = TRUE]
    /\ trig' = IF sigArmed[s] /\ sigBuf[s] = 0
               THEN [trig EXCEPT ![s].buf = IF EditorRunning(s) THEN tempFile[TempDirPath(s)]
                                            ELSE NoTrigger]
               ELSE trig
    /\ hist' = [hist EXCEPT ![s].late = @ \/ Disarmed(s)]
    /\ UNCHANGED <<call, umask, mode, userDir, rand, ids, readers, force, cfg, enc, pc, result, exists, lockHeld, tempDir, tempFile,
                   beforeSum, initSum, mu, sv, lpc, sigArmed, prompted>>

\* signal_unix.go:21-22: the listener takes a signal and calls save.
ListenerReceive(s) ==
    /\ Alive(s)
    /\ lpc[s] = "wait"
    /\ sv[s]["listener"].phase = "idle"
    /\ sigBuf[s] > 0
    /\ sigBuf' = [sigBuf EXCEPT ![s] = @ - 1]
    /\ sv' = [sv EXCEPT ![s]["listener"].phase = "enter"]
    /\ trig' = [trig EXCEPT ![s] = [buf |-> NoTrigger, cur |-> trig[s].buf]]
    /\ UNCHANGED <<call, umask, mode, userDir, rand, ids, readers, force, hist, cfg, enc, pc, result, exists, lockHeld, tempDir, tempFile,
                   beforeSum, initSum, mu, lpc, sigArmed, eventsLeft,
                   prompted, signalled>>

\* signal_unix.go:21: the range loop ends when the channel is closed and empty.
ListenerExit(s) ==
    /\ Alive(s)
    /\ lpc[s] = "wait"
    /\ sv[s]["listener"].phase = "idle"
    /\ sigBuf[s] = 0
    /\ ~sigArmed[s]
    /\ lpc' = [lpc EXCEPT ![s] = "exit"]
    /\ UNCHANGED <<call, umask, mode, userDir, rand, ids, readers, force, hist, cfg, enc, pc, result, exists, lockHeld, tempDir, tempFile,
                   beforeSum, initSum, mu, sv, sigArmed, sigBuf, eventsLeft,
                   prompted, signalled, trig>>

(* ---------------------- edit()'s defers and cli ----------------------- *)

\* signal_unix.go:28-31, deferred at main.go:390: signal.Stop and close(c).
DeferStop(s) ==
    /\ pc[s] = "deferStop"
    /\ sigArmed' = [sigArmed EXCEPT ![s] = FALSE]
    /\ pc' = [pc EXCEPT ![s] = AfterStop(s)]
    /\ UNCHANGED <<call, umask, mode, userDir, rand, ids, readers, force, hist, cfg, enc, result, exists, lockHeld, tempDir, tempFile, beforeSum,
                   initSum, mu, sv, lpc, sigBuf, eventsLeft, prompted, signalled, trig>>

\* main.go:345-347: the deferred Unlock releases the lock, or fails and
\* leaves it held; its error is dropped.
DeferUnlock(s) ==
    /\ pc[s] = "deferUnlock"
    /\ \/ lockHeld' = [lockHeld EXCEPT ![s] = FALSE]
       \/ UNCHANGED lockHeld
    /\ pc' = [pc EXCEPT ![s] = "cli"]
    /\ UNCHANGED <<call, umask, mode, userDir, rand, ids, readers, force, hist, cfg, enc, result, exists, tempDir, tempFile, beforeSum, initSum,
                   mu, sv, lpc, sigArmed, sigBuf, eventsLeft, prompted, signalled, trig>>

\* A cli that never prompts.
NeverWaitsForEnter(res) == FALSE

\* main.go:771-780: only a saveError makes cli wait for <Enter>.
WaitsForEnter(res) == res = "SaveError"

\* main.go:752-780: edit has returned; cli reports the error and, for a
\* saveError, prompts.
Cli(s) ==
    /\ pc[s] = "cli"
    /\ pc' = [pc EXCEPT ![s] = IF WaitsForEnter(result[s]) THEN "prompt" ELSE "cleanup"]
    /\ UNCHANGED <<call, umask, mode, userDir, rand, ids, readers, force, hist, cfg, enc, result, exists, lockHeld, tempDir, tempFile, beforeSum,
                   initSum, mu, sv, lpc, sigArmed, sigBuf, eventsLeft,
                   prompted, signalled, trig>>

\* main.go:779: the user presses <Enter>.
Prompt(s) ==
    /\ pc[s] = "prompt"
    /\ prompted' = [prompted EXCEPT ![s] = TRUE]
    /\ pc' = [pc EXCEPT ![s] = "cleanup"]
    /\ UNCHANGED <<call, umask, mode, userDir, rand, ids, readers, force, hist, cfg, enc, result, exists, lockHeld, tempDir, tempFile, beforeSum,
                   initSum, mu, sv, lpc, sigArmed, sigBuf, eventsLeft, signalled, trig>>

\* An os.Remove that takes a directory with what is in it.
EmptyOrNot(subdirs) == TRUE

\* main.go:756: os.Remove removes a directory that has no entry.
Empty(subdirs) == \A d \in TempDirs : ~subdirs[d]

\* main.go:753-758, 782-790: cli returns, its defers remove the random
\* subdirectory with all in it and then the per-user directory if that is
\* empty, when edit returned a directory, and main exits the process; a lock
\* whose Unlock failed goes with the process's file descriptors.
Cleanup(s) ==
    /\ pc[s] = "cleanup"
    /\ IF ReturnsTempDir(result[s])
       THEN /\ tempDir' = [tempDir EXCEPT ![TempDirPath(s)] = FALSE]
            /\ tempFile' = [tempFile EXCEPT ![TempDirPath(s)] = NoFile]
            /\ userDir' = (userDir /\ ~Empty(tempDir'))
            /\ mode' = [mode EXCEPT
                           !.user = IF userDir' THEN @ ELSE NoPerm,
                           !.dirs[TempDirPath(s)] = NoPerm,
                           !.files[TempDirPath(s)] = NoPerm]
       ELSE UNCHANGED <<tempDir, tempFile, userDir, mode>>
    /\ pc' = [pc EXCEPT ![s] = "exited"]
    /\ lockHeld' = [lockHeld EXCEPT ![s] = FALSE]
    /\ UNCHANGED <<call, umask, rand, ids, readers, force, hist, cfg, enc, result, exists, beforeSum, initSum, mu, sv,
                   lpc, sigArmed, sigBuf, eventsLeft, prompted, signalled, trig>>

(* ------------------------------- Next --------------------------------- *)

Next ==
    \E s \in Sessions :
        \/ CheckAccess(s)
        \/ LoadIdentities(s)
        \/ PrepareWorkspace(s)
        \/ AcquireLock(s)
        \/ Decrypt(s)
        \/ Checksum(s)
        \/ Chmod(s)
        \/ HandleSignals(s)
        \/ RunEditor(s)
        \/ EditorWrite(s)
        \/ EditorExit(s)
        \/ \E a \in Activities : SaveLock(s, a)
        \/ \E a \in Activities : SaveChecksum(s, a)
        \/ \E a \in Activities : SaveOpen(s, a)
        \/ \E a \in Activities : SaveWrite(s, a)
        \/ Signal(s)
        \/ ListenerReceive(s)
        \/ ListenerExit(s)
        \/ DeferStop(s)
        \/ DeferUnlock(s)
        \/ Cli(s)
        \/ Prompt(s)
        \/ Cleanup(s)

\* Two sessions on one encrypted file.
Spec == Init /\ [][Next]_vars

\* One session alone.
SpecSolo == InitSolo /\ [][Next]_vars

\* The steps of the listener goroutine of s (signal_unix.go:20-26).
ListenerStep(s) ==
    \/ ListenerReceive(s)
    \/ ListenerExit(s)
    \/ SaveLock(s, "listener")
    \/ SaveChecksum(s, "listener")
    \/ SaveOpen(s, "listener")
    \/ SaveWrite(s, "listener")

\* The steps the main goroutine of s takes by itself, from the editor's exit
\* on (main.go:405-411, 753-758).  The editor and the user answering the
\* prompt are not the program's to schedule.
MainStep(s) ==
    \/ SaveLock(s, "main")
    \/ SaveChecksum(s, "main")
    \/ SaveOpen(s, "main")
    \/ SaveWrite(s, "main")
    \/ DeferStop(s)
    \/ DeferUnlock(s)
    \/ Cli(s)
    \/ Cleanup(s)

\* One session alone, with the Go scheduler running every goroutine that can
\* run.
SpecSoloFair ==
    /\ InitSolo
    /\ [][Next]_vars
    /\ \A s \in Sessions : WF_vars(ListenerStep(s)) /\ WF_vars(MainStep(s))

(* ------------------ the pure functions, by themselves ----------------- *)

\* The pieces the paths tried are put together from.
Pieces ==
    {<<"a">>, <<".">>, <<"/">>, <<".", "a", "g", "e">>, <<"a", "g", "e">>,
     <<".", "a", "g">>}

RECURSIVE PathsOf(_)
PathsOf(n) ==
    IF n = 0 THEN {<<>>}
    ELSE LET shorter == PathsOf(n - 1)
         IN shorter \cup {q \o piece : q \in shorter, piece \in Pieces}

Paths == PathsOf(MaxPieces)

\* The file system's answers to checkAccess, and its readOnly argument.
AccessInputs ==
    [present : BOOLEAN, readable : BOOLEAN, writable : BOOLEAN, readOnly : BOOLEAN]

\* A plaintext, whether to armor, the two filter commands, the recipient's
\* key and the identity's.
CryptInputs ==
    [plain : Contents, armor : BOOLEAN, encodeCmd : Filters, decodeCmd : Filters,
     recipient : Keys, identity : Keys]

\* The lines an identities file is made of: blank ones, comments, keys with
\* and without space around them, and lines that are no key.
FileLines ==
    {<<>>, <<" ">>, <<"#">>, <<" ", "#", "key1">>, <<"key1">>, <<" ", "key2", " ">>,
     <<"junk">>, <<"key1", "#">>}

RECURSIVE FilesOf(_)
FilesOf(n) ==
    IF n = 0 THEN {<<>>}
    ELSE LET shorter == FilesOf(n - 1)
         IN shorter \cup {Append(f, line) : f \in shorter, line \in FileLines}

IdentityFiles == FilesOf(MaxLines)

\* The --warn threshold, the clock's readings when cli calls edit (start),
\* when the editor is launched and when it exits, and when edit has returned
\* (now), whether edit got as far as running the editor, and whether it
\* returned an error.  Without an editor run the two middle readings are
\* those of edit's return.
WarnInputs ==
    {in \in [warn : 0..MaxWarn, start : 0..MaxClock, launched : 0..MaxClock,
             exited : 0..MaxClock, now : 0..MaxClock, ran : BOOLEAN, failed : BOOLEAN] :
        /\ in.start <= in.launched /\ in.launched <= in.exited /\ in.exited <= in.now
        /\ ~in.ran => (in.failed /\ in.launched = in.now)}

InitPure ==
    /\ InitCommon
    /\ OneKey
    /\ DistinctDraws
    /\ UsualUmask
    /\ enc = NoEnc
    /\ force = [s \in Sessions |-> FALSE]
    /\ cfg = [s \in Sessions |-> [lock |-> TRUE, readOnly |-> FALSE]]
    /\ pc = [s \in Sessions |-> "off"]
    /\ eventsLeft = 0
    /\ \/ \E in \in AccessInputs :
             call = [fn |-> "checkAccess", in |-> in, done |-> FALSE, out |-> <<>>]
       \/ \E path \in Paths :
             call = [fn |-> "getRoot", in |-> path, done |-> FALSE, out |-> <<>>]
       \/ \E path \in Paths :
             call = [fn |-> "tempFile", in |-> path, done |-> FALSE, out |-> <<>>]
       \/ \E lines \in IdentityFiles :
             call = [fn |-> "loadIdentities", in |-> lines, done |-> FALSE, out |-> <<>>]
       \/ \E in \in CryptInputs :
             call = [fn |-> "crypt", in |-> in, done |-> FALSE, out |-> <<>>]
       \/ \E in \in WarnInputs :
             call = [fn |-> "warn", in |-> in, done |-> FALSE, out |-> <<>>]

Others ==
    <<umask, mode, userDir, rand, ids, readers, force, hist, cfg, enc, pc, result, exists, lockHeld, tempDir, tempFile,
      beforeSum, initSum, mu, sv, lpc, sigArmed, sigBuf, eventsLeft, prompted,
      signalled, trig>>

\* checkAccess is called (main.go:224-254).
CallCheckAccess ==
    /\ call.fn = "checkAccess" /\ ~call.done
    /\ call' = [call EXCEPT !.done = TRUE,
                            !.out = checkAccess(call.in.present, call.in.readable,
                                                call.in.writable, call.in.readOnly)]
    /\ UNCHANGED Others

\* getRoot is called (main.go:193-195).
CallGetRoot ==
    /\ call.fn = "getRoot" /\ ~call.done
    /\ call' = [call EXCEPT !.done = TRUE, !.out = getRoot(call.in)]
    /\ UNCHANGED Others

\* The temp file's path is made (main.go:328-329).
CallTempFile ==
    /\ call.fn = "tempFile" /\ ~call.done
    /\ call' = [call EXCEPT !.done = TRUE,
                            !.out = tempFilePath(TempDirPath("s1"), call.in)]
    /\ UNCHANGED Others

\* encryptToFile, then decryptToFile on the file it wrote (main.go:149-182).
CallCrypt ==
    /\ call.fn = "crypt" /\ ~call.done
    /\ LET in == call.in
           file == encryptToFile(Data(in.plain), in.armor, in.encodeCmd,
                                 Recipients({in.recipient}))
       IN call' = [call EXCEPT
                      !.done = TRUE,
                      !.out = IF file.err THEN Failed
                              ELSE decryptToFile(file, in.decodeCmd, {in.identity})]
    /\ UNCHANGED Others

\* loadIdentities is called (main.go:259-292).
CallLoadIdentities ==
    /\ call.fn = "loadIdentities" /\ ~call.done
    /\ call' = [call EXCEPT !.done = TRUE, !.out = loadIdentities(call.in)]
    /\ UNCHANGED Others

\* The end of cli, once edit has returned (main.go:750-785): the warning
\* and the exit code.
CallWarn ==
    /\ call.fn = "warn" /\ ~call.done
    /\ call' = [call EXCEPT
                   !.done = TRUE,
                   !.out = [warned |-> warns(call.in.warn, call.in.start, call.in.now),
                            exit |-> exitCode(call.in.failed)]]
    /\ UNCHANGED Others

NextPure ==
    \/ CallCheckAccess \/ CallGetRoot \/ CallTempFile \/ CallCrypt \/ CallLoadIdentities
    \/ CallWarn

\* One session alone, with any identities in its file and the encrypted
\* file made for any recipients.
InitKeys ==
    /\ InitCommon
    /\ call = NoCall
    /\ DistinctDraws
    /\ UsualUmask
    /\ ids \in {i \in [Sessions -> SUBSET Keys] : i["s2"] = {1}}
    /\ readers \in {r \in SUBSET {Recipient(k) : k \in Keys} : (r = {}) <=> (enc = NoEnc)}
    /\ force = [s \in Sessions |-> FALSE]
    /\ cfg \in {c \in [Sessions -> Configs] : c["s2"] = [lock |-> TRUE, readOnly |-> FALSE]}
    /\ pc = [s \in Sessions |-> IF s = "s1" THEN "checkAccess" ELSE "off"]
    /\ eventsLeft = KeyEvents

SpecKeys == InitKeys /\ [][Next]_vars

\* One session alone under any mask.
InitPerms ==
    /\ InitCommon
    /\ call = NoCall
    /\ OneKey
    /\ DistinctDraws
    /\ umask \in Umasks
    /\ force = [s \in Sessions |-> FALSE]
    /\ cfg \in {c \in [Sessions -> Configs] : c["s2"] = [lock |-> TRUE, readOnly |-> FALSE]}
    /\ pc = [s \in Sessions |-> IF s = "s1" THEN "checkAccess" ELSE "off"]
    /\ eventsLeft = KeyEvents

SpecPerms == InitPerms /\ [][Next]_vars

\* Two sessions of one user on one host under one prefix, drawing any random
\* identifiers: the same, or two that differ (which two makes no difference).
\* The first session is read-only or locks, the second locks; the encrypted
\* file is absent or holds a text that is not empty.
InitIDs ==
    /\ InitCommon
    /\ enc # Age(0)
    /\ call = NoCall
    /\ OneKey
    /\ UsualUmask
    /\ rand \in {r \in [Sessions -> RandomIDs] : r["s1"] = 1 /\ r["s2"] \in {1, NumIDs}}
    /\ force = [s \in Sessions |-> FALSE]
    /\ cfg \in {c \in [Sessions -> Configs] :
                   /\ c["s1"].lock = ~c["s1"].readOnly
                   /\ c["s2"] = [lock |-> TRUE, readOnly |-> FALSE]}
    /\ pc = [s \in Sessions |-> "checkAccess"]
    /\ eventsLeft = DuoEvents

SpecIDs == InitIDs /\ [][Next]_vars

\* One session alone on an existing encrypted file, read-only or locking,
\* with events enough for the editor to write between the steps of a save
\* and again after it.
InitRace ==
    /\ InitCommon
    /\ enc = Age(0)
    /\ call = NoCall
    /\ OneKey
    /\ DistinctDraws
    /\ UsualUmask
    /\ force = [s \in Sessions |-> FALSE]
    /\ cfg \in {c \in [Sessions -> Configs] :
                   /\ c["s1"].lock = ~c["s1"].readOnly
                   /\ c["s2"] = [lock |-> TRUE, readOnly |-> FALSE]}
    /\ pc = [s \in Sessions |-> IF s = "s1" THEN "checkAccess" ELSE "off"]
    /\ eventsLeft = RaceEvents

SpecRace == InitRace /\ [][Next]_vars

\* Calls of the pure functions on every input within the bounds.
SpecPure == InitPure /\ [][NextPure]_vars

(* ============================== claims =============================== *)

Other(s) == CHOOSE o \in Sessions : o # s

\* A session that takes part in locking: locking enabled, not read-only.
Locking(s) == cfg[s].lock /\ ~cfg[s].readOnly

\* The save of activity a is between its entry and its return.
Saving(s, a) == Alive(s) /\ sv[s][a].phase # "idle"

\* s may write the encrypted file: from its Decrypt/Checksum step to the
\* end of its last save.
InEditInterval(s) ==
    \/ pc[s] \in {"decrypt", "checksum", "handleSignals", "runEditor",
                  "waitEditor", "saveChanges"}
    \/ Saving(s, "listener")

\* C1: two sessions with locking enabled and not read-only, on the same
\* path (whether or not the encrypted file exists when they start), are
\* never both inside their edit intervals.
C1_NoConcurrentEdit ==
    \A s \in Sessions :
        (Locking(s) /\ Locking(Other(s)))
            => ~(InEditInterval(s) /\ InEditInterval(Other(s)))

\* The step of s that leaves the TryLock attempt.
LockAttempt(s) == pc[s] = "tryLock" /\ NeedsLock(s) /\ pc'[s] # "tryLock"

\* C2: of two locking sessions on an existing encrypted file, the one that
\* tries the lock while the other holds it fails in that very step (it does
\* not wait and does not acquire; the error is LockedError unless flock
\* itself reported an I/O error), the holder's state is untouched by that
\* step, the two never hold the lock together, and never both end with
\* LockedError.
C2_Exclusive ==
    /\ ~(lockHeld["s1"] /\ lockHeld["s2"])
    /\ ~(result["s1"] = "LockedError" /\ result["s2"] = "LockedError")
    /\ \A s \in Sessions : lockHeld[s] => result[s] # "LockedError"

C2_FailsAtOnce ==
    \A s \in Sessions :
        (LockAttempt(s) /\ lockHeld[Other(s)])
            => /\ result'[s] \in {"LockedError", "LockError"}
               /\ pc'[s] = "cli"
               /\ ~lockHeld'[s]
               /\ lockHeld'[Other(s)]
               /\ pc'[Other(s)] = pc[Other(s)]
               /\ result'[Other(s)] = result[Other(s)]
               /\ tempFile'[TempDirPath(Other(s))] = tempFile[TempDirPath(Other(s))]
               /\ enc' = enc

C2_LockedOut == []C2_Exclusive /\ [][C2_FailsAtOnce]_vars

\* C2's case: a locking session has failed with LockedError while the other
\* holds the lock.
C2_Witness ==
    \E s \in Sessions :
        /\ result[s] = "LockedError"
        /\ lockHeld[Other(s)]
        /\ Locking(s) /\ Locking(Other(s))

Returned(s) == pc[s] \in {"cli", "prompt", "cleanup"}

\* The temp file is there and differs from its state right after decryption.
Edited(s) == tempFile[TempDirPath(s)].st = "file" /\ checksumFile(tempFile[TempDirPath(s)]) # initSum[s]

\* C4: when edit has returned in a session that is not read-only and the
\* editor has modified the temp file, the encrypted file decrypts to the
\* temp file's content, or the session ended with the SaveError that reports
\* the temp file's path and the workspace is still there.
C4_EditsNotLost ==
    \A s \in Sessions :
        (Returned(s) /\ ~cfg[s].readOnly /\ Edited(s))
            => \/ enc = Age(tempFile[TempDirPath(s)].data)
               \/ result[s] = "SaveError" /\ tempDir[TempDirPath(s)]

\* C5: from the failure of the final save until the prompt is answered, the
\* session's result is the SaveError, the workspace exists and no step
\* changes the temp file; the workspace is removed only afterwards.
C5_KeptOnDisk ==
    \A s \in Sessions :
        (result[s] = "SaveError" /\ ~prompted[s])
            => tempDir[TempDirPath(s)] /\ pc[s] \in {"deferStop", "deferUnlock", "cli", "prompt"}

C5_KeptUnchanged ==
    \A s \in Sessions :
        (result[s] = "SaveError" /\ ~prompted'[s])
            => tempFile'[TempDirPath(s)] = tempFile[TempDirPath(s)] /\ tempDir'[TempDirPath(s)]

C5_RemovedAfterPrompt ==
    \A s \in Sessions :
        (result[s] = "SaveError" /\ tempDir[TempDirPath(s)] /\ ~tempDir'[TempDirPath(s)])
            => prompted[s] /\ pc'[s] = "exited"

C5_SaveErrorKeepsTempFile ==
    []C5_KeptOnDisk /\ [][C5_KeptUnchanged /\ C5_RemovedAfterPrompt]_vars

\* C5's case: the final save has failed, cli is at the prompt, and the temp
\* file holds the editor's edits.
C5_Witness ==
    \E s \in Sessions :
        /\ result[s] = "SaveError"
        /\ pc[s] = "prompt"
        /\ Edited(s)

\* C6: in a read-only session no step changes the encrypted file, the
\* listener is never started, Notify is never in force and saveChanges is
\* never entered.
C6_NoSaveArmed ==
    \A s \in Sessions :
        cfg[s].readOnly => /\ lpc[s] = "none"
                           /\ ~sigArmed[s]
                           /\ sv[s]["main"].phase = "idle"
                           /\ sv[s]["listener"].phase = "idle"

C6_ReadOnlyKeepsEncrypted ==
    []C6_NoSaveArmed /\ [][cfg["s1"].readOnly => enc' = enc]_vars

\* C6's case: a read-only session returned Success after its editor changed
\* the temp file and a signal was delivered.
C6_Witness ==
    /\ cfg["s1"].readOnly
    /\ pc["s1"] = "cli"
    /\ result["s1"] = "Success"
    /\ Edited("s1")
    /\ signalled["s1"]

\* The part of saveChanges under the mutex.
InCritical(s, a) == sv[s][a].phase \in {"locked", "summed", "created"}

\* C7: the two activities of a session are never both inside the part of
\* saveChanges that the mutex guards, and the mutex is held by exactly the
\* activity that is inside.
C7_SaveMutualExclusion ==
    \A s \in Sessions :
        /\ ~(InCritical(s, "main") /\ InCritical(s, "listener"))
        /\ \A a \in Activities : InCritical(s, a) <=> mu[s] = a

\* C7's case: the main goroutine is inside the final save while the listener
\* has taken a signal and waits for the mutex.
C7_Witness ==
    \E s \in Sessions :
        /\ InCritical(s, "main")
        /\ sv[s]["listener"].phase = "enter"

\* The listener's save ends having written a complete ciphertext.
ListenerWroteCiphertext(s) ==
    /\ sv[s]["listener"].phase = "created"
    /\ sv'[s]["listener"].phase = "idle"
    /\ enc'.st = "age"

\* C8: when the save caused by a signal that was delivered with the editor
\* running has written a complete ciphertext, the encrypted file decrypts to
\* the temp file's content at the moment of that signal.
C8_StepReflectsTrigger ==
    \A s \in Sessions :
        (ListenerWroteCiphertext(s) /\ trig[s].cur.st # "none")
            => trig[s].cur.st = "file" /\ enc' = Age(trig[s].cur.data)

C8_ReflectsTriggerMoment == [][C8_StepReflectsTrigger]_vars

\* The main goroutine's step at main.go:377, in the final save: the digest
\* has been computed and is compared with the last-saved one.
FinalCompare(s) == sv[s]["main"].phase = "summed" /\ sv'[s]["main"].phase # "summed"

\* FinalSave returns without having called encryptToFile.
FinalSkips(s) == sv'[s]["main"].phase = "idle" /\ result'[s] = "Success" /\ enc' = enc

\* C9, as claimed: if at FinalSave the temp file's digest is the one taken
\* right after decryption, FinalSave does not write the encrypted file.
C9_StepSkipsIfAsDecrypted ==
    \A s \in Sessions :
        (FinalCompare(s) /\ sv[s]["main"].cur = initSum[s]) => FinalSkips(s)

C9_SkipsIfAsDecrypted == [][C9_StepSkipsIfAsDecrypted]_vars

\* C9, amended: if at FinalSave the temp file's digest equals the last-saved
\* digest, FinalSave returns success without touching the encrypted file.
C9_StepSkipsIfAsLastSaved ==
    \A s \in Sessions :
        (FinalCompare(s) /\ sv[s]["main"].cur = beforeSum[s]) => FinalSkips(s)

C9_SkipsIfAsLastSaved == [][C9_StepSkipsIfAsLastSaved]_vars

\* C9's case: FinalSave is at its comparison with a digest equal to the
\* last-saved one, which a checkpoint save has moved off the digest taken
\* after decryption.
C9_Witness ==
    \E s \in Sessions :
        /\ sv[s]["main"].phase = "summed"
        /\ sv[s]["main"].cur = beforeSum[s]
        /\ beforeSum[s] # initSum[s]

\* C10, as claimed: if at FinalSave the temp file's digest differs from the
\* one taken right after decryption, FinalSave does not skip the encryption.
C10_StepEncryptsIfNotAsDecrypted ==
    \A s \in Sessions :
        (FinalCompare(s) /\ sv[s]["main"].cur # initSum[s]) => ~FinalSkips(s)

C10_EncryptsIfNotAsDecrypted == [][C10_StepEncryptsIfNotAsDecrypted]_vars

\* C10, amended: if at FinalSave the temp file's digest differs from the
\* last-saved digest, FinalSave calls encryptToFile: it creates (truncates)
\* the encrypted file to rewrite it, or fails with SaveError leaving it as
\* it was; it never returns success without writing.
C10_StepEncryptsIfNotAsLastSaved ==
    \A s \in Sessions :
        (FinalCompare(s) /\ sv[s]["main"].cur # beforeSum[s])
            => \/ sv'[s]["main"].phase = "created" /\ enc' = Partial
               \/ result'[s] = "SaveError" /\ enc' = enc

C10_EncryptsIfNotAsLastSaved == [][C10_StepEncryptsIfNotAsLastSaved]_vars

\* C10's case: FinalSave found the digest different from the last-saved one
\* and has created the encrypted file for rewriting.
C10_Witness ==
    \E s \in Sessions :
        /\ sv[s]["main"].phase = "created"
        /\ sv[s]["main"].cur # beforeSum[s]
        /\ enc = Partial

\* Activity a of s takes the step at main.go:377: its digest is computed and
\* is compared with the last-saved one.
Compares(s, a) == sv[s][a].phase = "summed" /\ sv'[s][a].phase # "summed"

\* C11: when force is set, an execution of the save routine (checkpoint or
\* final) that finds the temp file's digest equal to the last-saved digest
\* still goes on to encrypt the temp file to the encrypted file.
C11_StepForceEncrypts ==
    \A s \in Sessions : \A a \in Activities :
        (force[s] /\ Compares(s, a) /\ tempFile[TempDirPath(s)].st = "file"
                  /\ sv[s][a].cur = beforeSum[s])
            => sv'[s][a].phase = "created" /\ enc' = Partial

C11_ForceAlwaysEncrypts == [][C11_StepForceEncrypts]_vars

\* The listener of s starts an invocation of the save callback.
ListenerInvokes(s) ==
    sv[s]["listener"].phase = "idle" /\ sv'[s]["listener"].phase = "enter"

\* C12, as claimed: every trigger delivered while the eager save is armed
\* adds an invocation of its own to those still to be made.
C12_StepTriggerQueued ==
    \A s \in Sessions : (Signal(s) /\ sigArmed[s]) => sigBuf'[s] = sigBuf[s] + 1

C12_OncePerTrigger == [][C12_StepTriggerQueued]_vars

\* C12, amended: a trigger delivered while the eager save is armed leaves
\* exactly one trigger waiting (it is merged with one already waiting); the
\* listener starts an invocation only by taking the waiting trigger, one
\* invocation for it, and only when its previous invocation has returned.
C12_StepTriggerMerged ==
    \A s \in Sessions :
        /\ (Signal(s) /\ sigArmed[s]) => sigBuf'[s] = 1
        /\ ListenerInvokes(s) => sigBuf[s] = 1 /\ sigBuf'[s] = 0
        /\ sigBuf'[s] < sigBuf[s] => ListenerInvokes(s)
        /\ sv'[s]["listener"].phase = "enter" =>
               sv[s]["listener"].phase \in {"idle", "enter"}

C12_OnePendingPerTrigger ==
    [](\A s \in Sessions : sigBuf[s] \in {0, 1}) /\ [][C12_StepTriggerMerged]_vars

\* C12's case: a trigger is waiting while the invocation for an earlier
\* trigger is still in progress.
C12_Witness ==
    \E s \in Sessions :
        /\ sigArmed[s]
        /\ sigBuf[s] = 1
        /\ sv[s]["listener"].phase \in {"locked", "summed", "created"}

\* C13: once the session has disarmed the eager save it stays disarmed, and
\* a trigger that arrives then changes nothing: it is not queued, and the
\* listener starts no invocation unless a trigger was already waiting.
C13_StepLateTriggerIgnored ==
    \A s \in Sessions :
        /\ Disarmed(s) => Disarmed(s)'
        /\ (Signal(s) /\ Disarmed(s)) =>
               sigBuf' = sigBuf /\ sv' = sv /\ lpc' = lpc /\ enc' = enc
        /\ (Disarmed(s) /\ sigBuf[s] = 0) => ~ListenerInvokes(s)

\* C13: after the disarming the listener goroutine terminates (at the latest
\* with its process).
C13_ListenerTerminates ==
    \A s \in Sessions : Disarmed(s) ~> (lpc[s] = "exit" \/ ~Alive(s))

C13_DisarmedForGood == [][C13_StepLateTriggerIgnored]_vars /\ C13_ListenerTerminates

\* C13's case: a trigger has arrived after the disarming, and the listener
\* has left its loop while the process is still running.
C13_Witness ==
    \E s \in Sessions : Alive(s) /\ Disarmed(s) /\ hist[s].late /\ lpc[s] = "exit"

\* The final save of s has begun (main.go:406), or is over.
FinalSaveBegun(s) ==
    \/ pc[s] = "saveChanges"
    \/ SavesOnExit(s) /\ result[s] \in {"Success", "SaveError"}

\* C14: the eager save is disarmed before the final save starts: from the
\* start of FinalSave on the session is disarmed, and the listener starts no
\* invocation of the save callback.
C14_StepNoSaveAfterFinalBegun ==
    \A s \in Sessions : FinalSaveBegun(s) => ~ListenerInvokes(s)

C14_DisarmedBeforeFinalSave ==
    /\ [](\A s \in Sessions : (Alive(s) /\ FinalSaveBegun(s)) => Disarmed(s))
    /\ [][C14_StepNoSaveAfterFinalBegun]_vars

\* The save called by activity a of s returns an error in this step: the
\* digest cannot be computed, or encryptToFile fails before or while writing.
SaveFails(s, a) ==
    /\ sv'[s][a].phase = "idle"
    /\ \/ sv[s][a].phase = "locked"
       \/ sv[s][a].phase = "summed" /\ sv[s][a].cur # beforeSum[s]
       \/ sv[s][a].phase = "created" /\ beforeSum'[s] = beforeSum[s]

\* C15: a failure of a signal-triggered save leaves the main goroutine and
\* the session's result as they are (the editor keeps running), leaves the
\* listener waiting for further triggers with the mutex released, and is
\* recorded as reported; the result becomes SaveError only by a failure of
\* the final save.
C15_StepCheckpointFailureNotFatal ==
    \A s \in Sessions :
        /\ SaveFails(s, "listener") =>
               /\ pc'[s] = pc[s] /\ result'[s] = result[s]
               /\ lpc'[s] = "wait" /\ mu'[s] = "none"
               /\ sigArmed'[s] = sigArmed[s] /\ sigBuf'[s] = sigBuf[s]
               /\ hist'[s].failed
        /\ (result'[s] = "SaveError" /\ result[s] # "SaveError") =>
               pc[s] = "saveChanges" /\ SaveFails(s, "main")

C15_CheckpointFailureNotFatal == [][C15_StepCheckpointFailureNotFatal]_vars

\* C15's case: the last signal-triggered save has failed and the session
\* has nevertheless ended in Success.
C15_Witness ==
    \E s \in Sessions : hist[s].failed /\ result[s] = "Success" /\ enc.st = "age"

\* The errors edit returns together with the workspace directory, other
\* than the save error.
TeardownErrors ==
    {"WorkspaceError", "LockError", "LockedError", "DecryptError",
     "ChecksumError", "ChmodError", "EditorError"}

\* C16: when a session has ended with an error other than SaveError that
\* came with a workspace directory, its random subdirectory and its temp
\* file are gone once the process has finished, and cli never waited at the
\* prompt.
C16_ErrorRemovesWorkspace ==
    \A s \in Sessions :
        result[s] \in TeardownErrors =>
            /\ pc[s] # "prompt" /\ ~prompted[s]
            /\ pc[s] = "exited" => ~tempDir[TempDirPath(s)] /\ tempFile[TempDirPath(s)] = NoFile

\* C16's case: the session failed after the workspace and the temp file
\* were made, and its process has finished.
C16_Witness ==
    \E s \in Sessions :
        /\ pc[s] = "exited"
        /\ result[s] \in {"DecryptError", "EditorError"}
        /\ ~tempDir[TempDirPath(s)]

\* C17: every path by which edit returns with the lock held runs the
\* deferred Unlock before cli goes on; a session that does not hold the lock
\* runs no Unlock; the Unlock, failed or not, leaves the result as it is; and
\* no lock outlives its process.
C17_StepUnlockOnReturn ==
    \A s \in Sessions :
        /\ (pc'[s] = "cli" /\ pc[s] # "cli") => pc[s] = "deferUnlock" \/ ~lockHeld[s]
        /\ (pc'[s] = "deferUnlock" /\ pc[s] # "deferUnlock") => lockHeld[s]
        /\ pc[s] = "deferUnlock" => result'[s] = result[s]
        /\ (lockHeld[s] /\ ~lockHeld'[s]) => pc[s] \in {"deferUnlock", "cleanup"}

C17_LockReleasedOnReturn ==
    /\ [](\A s \in Sessions : pc[s] \in {"off", "exited"} => ~lockHeld[s])
    /\ [][C17_StepUnlockOnReturn]_vars

\* C17's case: a session that had acquired the lock has returned from edit
\* with an error and no longer holds the lock.
C17_Witness ==
    \E s \in Sessions :
        /\ Locking(s) /\ exists[s]
        /\ pc[s] = "cli"
        /\ result[s] \in {"DecryptError", "EditorError", "SaveError"}
        /\ ~lockHeld[s]

\* The save called by activity a of s returns from encryptToFile without an
\* error in this step.
Encrypted(s, a) ==
    /\ sv[s][a].phase = "created" /\ sv'[s][a].phase = "idle"
    /\ IF a = "main" THEN result'[s] = "Success" ELSE ~hist'[s].failed

\* The save called by activity a of s reports an error in this step.
ReportsError(s, a) ==
    /\ sv[s][a].phase # "idle" /\ sv'[s][a].phase = "idle"
    /\ IF a = "main" THEN result'[s] = "SaveError" ELSE hist'[s].failed

\* C18: after the digest taken following decryption, the last-saved digest
\* changes only in the step in which a save's encryptToFile returns without
\* error, and becomes the digest computed in that save; a save that reports
\* an error or finds no difference leaves it as it was, and a save that
\* finds a difference from it attempts the encryption.
C18_StepLastSavedDigest ==
    \A s \in Sessions :
        /\ (beforeSum'[s] # beforeSum[s] /\ pc[s] # "checksum") =>
               \E a \in Activities :
                   Encrypted(s, a) /\ beforeSum'[s] = sv[s][a].cur
        /\ \A a \in Activities :
               /\ ReportsError(s, a) => beforeSum'[s] = beforeSum[s]
               /\ (Compares(s, a) /\ sv[s][a].cur = beforeSum[s]) =>
                      beforeSum'[s] = beforeSum[s] /\ enc' = enc
               /\ (Compares(s, a) /\ sv[s][a].cur # beforeSum[s]) =>
                      sv'[s][a].phase = "created" \/ ReportsError(s, a)

C18_LastSavedDigest == [][C18_StepLastSavedDigest]_vars

\* C18's case: after the last checkpoint save has failed with the last-saved digest
\* left at the one taken after decryption, a later save has found the
\* difference again and is encrypting.
C18_Witness ==
    \E s \in Sessions : \E a \in Activities :
        /\ hist[s].failed
        /\ beforeSum[s] = initSum[s]
        /\ sv[s][a].phase = "created"
        /\ sv[s][a].cur # beforeSum[s]

\* edit has returned and its deferred calls have run.
BackInCli(s) == pc[s] \in {"cli", "prompt", "cleanup", "exited"}

\* C19, as claimed: once the editor has failed to start or has exited with a
\* non-zero status, nothing is encrypted any more: the encrypted file stays
\* as it is.
C19_StepNothingEncrypted ==
    \A s \in Sessions : result[s] = "EditorError" => enc' = enc

C19_NothingEncryptedAfterEditorError == [][C19_StepNothingEncrypted]_vars

\* C19, amended: once edit has returned the editor's error the main goroutine
\* runs no save, and the encrypted file is written only by a save of the
\* listener, started for a trigger that was waiting; a trigger arriving after
\* the disarming is not queued; edit's deferred calls disarm the eager save
\* and run the Unlock before cli goes on.
C19_StepShortCircuit ==
    \A s \in Sessions :
        result[s] = "EditorError" =>
            /\ sv'[s]["main"] = IdleSave
            /\ enc' # enc => sv[s]["listener"].phase \in {"summed", "created"}
            /\ ListenerInvokes(s) => sigBuf[s] = 1
            /\ (Signal(s) /\ Disarmed(s)) => sigBuf'[s] = sigBuf[s]
            /\ (pc'[s] = "cli" /\ pc[s] # "cli") => pc[s] = "deferUnlock" \/ ~lockHeld[s]

C19_EditorErrorShortCircuits ==
    /\ [](\A s \in Sessions :
            result[s] = "EditorError" =>
                /\ pc[s] # "saveChanges" /\ sv[s]["main"] = IdleSave
                /\ BackInCli(s) => ~sigArmed[s])
    /\ [][C19_StepShortCircuit]_vars

\* C19's case: the editor has exited with an error in a session whose eager
\* save was armed, edit has returned through its deferred calls, and a save
\* for a trigger from before the disarming is encrypting.
C19_Witness ==
    \E s \in Sessions :
        /\ result[s] = "EditorError"
        /\ BackInCli(s) /\ Disarmed(s)
        /\ sv[s]["listener"].phase = "created"

\* A non-read-only session whose checkAccess found no encrypted file and
\* which has got past it.
StartsFromNothing(s) ==
    ~cfg[s].readOnly /\ ~exists[s] /\ pc[s] \notin {"off", "checkAccess"}

\* The digest of empty content.
EmptySum == checksumFile(File(0))

\* C20, as claimed: when such a session has ended in Success, there is no
\* encrypted file if the editor left the temp file absent or empty, and
\* there is one if it left any other content (already so when no save has
\* failed or left an incomplete file).
C20_CreatedIffNonEmpty ==
    \A s \in Sessions :
        (/\ StartsFromNothing(s) /\ result[s] = "Success" /\ pc[s] = "deferStop"
         /\ ~hist[s].failed /\ enc.st # "partial") =>
            IF checksumFile(tempFile[TempDirPath(s)]) = EmptySum
            THEN enc = NoEnc
            ELSE enc.st # "absent"

\* C20, amended: such a session takes no lock and decrypts nothing, and the
\* digest it takes first is that of empty content.
C20_NothingToDecrypt ==
    \A s \in Sessions :
        StartsFromNothing(s) =>
            /\ ~lockHeld[s] /\ pc[s] # "decrypt"
            /\ result[s] \notin {"LockError", "LockedError", "DecryptError"}
            /\ pc[s] \in {"handleSignals", "runEditor", "waitEditor", "saveChanges"}
                   => initSum[s] = EmptySum

\* C20, amended: at FinalSave, if the temp file is absent or empty and no
\* save has moved the last-saved digest off that of empty content, nothing
\* is written (no encrypted file is created); if the temp file's digest
\* differs from the last-saved digest, FinalSave creates the encrypted file
\* or fails with SaveError without touching it.
C20_StepFinalSave ==
    \A s \in Sessions :
        (StartsFromNothing(s) /\ FinalCompare(s)) =>
            /\ (sv[s]["main"].cur = EmptySum /\ beforeSum[s] = EmptySum) => FinalSkips(s)
            /\ sv[s]["main"].cur # beforeSum[s] =>
                   \/ sv'[s]["main"].phase = "created" /\ enc' = Partial
                   \/ result'[s] = "SaveError" /\ enc' = enc

C20_NewFile == []C20_NothingToDecrypt /\ [][C20_StepFinalSave]_vars

\* C20's case: the session started without an encrypted file, the editor
\* left an empty temp file, and edit has returned Success with no encrypted
\* file created.
C20_Witness ==
    \E s \in Sessions :
        /\ StartsFromNothing(s)
        /\ result[s] = "Success"
        /\ tempFile[TempDirPath(s)] = File(0)
        /\ enc = NoEnc

\* C21: while the main goroutine waits for the editor, only the editor's
\* exit moves it on; a trigger and the listener's steps leave the main
\* goroutine, the result and the editor as they are.
C21_StepOnlyEditorExitEnds ==
    \A s \in Sessions :
        /\ (EditorRunning(s) /\ pc'[s] # pc[s]) => EditorExit(s)
        /\ (Signal(s) \/ ListenerStep(s)) =>
               pc'[s] = pc[s] /\ result'[s] = result[s] /\ tempFile'[TempDirPath(s)] = tempFile[TempDirPath(s)]

\* C21: once the editor has exited, edit returns, whatever the listener is
\* doing with the mutex; and a listener waiting for the mutex gets it (or
\* ends with the process).
C21_EditReturns ==
    \A s \in Sessions :
        /\ pc[s] = "saveChanges" ~> result[s] # "none"
        /\ (Alive(s) /\ sv[s]["listener"].phase = "enter")
               ~> (~Alive(s) \/ sv[s]["listener"].phase # "enter")

C21_EndsWithEditor == [][C21_StepOnlyEditorExitEnds]_vars /\ C21_EditReturns

\* C21's case: the editor has exited and the main goroutine is waiting for
\* the mutex, which the listener holds for a save.
C21_Witness ==
    \E s \in Sessions :
        /\ pc[s] = "saveChanges"
        /\ sv[s]["main"].phase = "enter"
        /\ mu[s] = "listener"

\* The errors edit returns before the temp file has been decrypted.
EarlyErrors ==
    {"AccessError", "IdentityError", "UserError", "WorkspaceError",
     "LockError", "LockedError", "DecryptError"}

\* C22: the access check, the loading of the identities, the making of the
\* workspace, the lock attempt and the decryption leave the encrypted file
\* as it is, and so does everything that follows in a session that ended
\* in one of their errors.
C22_StepEncryptedFileIntact ==
    \A s \in Sessions :
        \/ pc[s] \in {"checkAccess", "loadIdentities", "mkdir", "tryLock", "decrypt"}
        \/ result[s] \in EarlyErrors
        => enc' = enc

C22_EarlyErrorKeepsEncrypted == [][C22_StepEncryptedFileIntact]_vars

\* C22's case: a session on an existing encrypted file has failed in
\* decryption and finished, with the encrypted file complete.
C22_Witness ==
    \E s \in Sessions :
        /\ pc[s] = "exited"
        /\ result[s] = "DecryptError"
        /\ enc.st = "age"

\* C23: checkAccess on a path that does not exist succeeds, reporting no
\* file, when not read-only and fails when read-only; on an existing path it
\* reports the file and fails if the file cannot be opened for reading or,
\* when not read-only, cannot be opened for writing, and succeeds otherwise.
C23_CheckAccess ==
    (call.fn = "checkAccess" /\ call.done) =>
        LET in == call.in
            out == call.out
        IN /\ out.exists = in.present
           /\ ~in.present => (out.err <=> in.readOnly)
           /\ in.present =>
                  (out.err <=> (~in.readable \/ (~in.readOnly /\ ~in.writable)))

\* C23's case: checkAccess has failed on an existing, readable file that
\* cannot be opened for writing, when not read-only.
C23_Witness ==
    /\ call.fn = "checkAccess" /\ call.done
    /\ call.in = [present |-> TRUE, readable |-> TRUE, writable |-> FALSE,
                  readOnly |-> FALSE]
    /\ call.out.err

\* A save of session s completes the encrypted file in this step.
SaveCompletes(s) ==
    \E a \in Activities :
        /\ sv[s][a].phase = "created"
        /\ sv'[s][a].phase = "idle"
        /\ enc'.st = "age"

\* C24 as stated: every save encrypts for the recipients of all loaded
\* identities, and no key that could decrypt the encrypted file before a
\* save is unable to decrypt it after: the set of keys is never narrowed.
C24_NeverNarrowed ==
    [][\A s \in Sessions :
           SaveCompletes(s) =>
               /\ Recipients(ids[s]) \subseteq readers'
               /\ readers \subseteq readers']_vars

\* C24: every save encrypts for the recipients of all loaded identities and
\* for no other key: after a save every loaded identity, the one that
\* decrypted the file included, can decrypt it, and a key that could decrypt
\* it before and is not among the loaded identities no longer can.
C24_RecipientsAreLoadedIdentities ==
    [][\A s \in Sessions :
           SaveCompletes(s) =>
               /\ readers' = Recipients(ids[s])
               /\ \A k \in Keys : (Recipient(k) \in readers') <=> (k \in ids[s])
               /\ exists[s] => \E k \in ids[s] :
                                   Recipient(k) \in readers /\ Recipient(k) \in readers'
               /\ readers \ Recipients(ids[s]) # {} => ~(readers \subseteq readers')]_vars

\* C24's case: a session holding two identities has decrypted the file and
\* saved changed contents, encrypted for both.
C24_Witness ==
    \E s \in Sessions :
        /\ pc[s] = "exited" /\ result[s] = "Success"
        /\ exists[s] /\ enc.st = "age"
        /\ Cardinality(ids[s]) = 2
        /\ readers = Recipients(ids[s])
        /\ checksumFile(File(enc.plain)) # initSum[s]

\* C25: in a session that is not read-only, on an existing encrypted file,
\* the temp file has permission 0600 from its creation by decryptToFile on,
\* whenever it is there and whatever the mask of the process, and the
\* session's random subdirectory and the per-user directory above it have
\* permission 0700.
C25_RestrictivePermissions ==
    \A s \in Sessions :
        LET d == TempDirPath(s)
        IN (pc[s] \notin {"off", "exited"} /\ ~cfg[s].readOnly /\ exists[s]) =>
               /\ tempFile[d].st = "file" => mode.files[d] = filePerm
               /\ tempDir[d] => mode.dirs[d] = tempDirPerm /\ mode.user = tempDirPerm

\* The editor of a read-only session is launched in this step.
Launches(s) == cfg[s].readOnly /\ pc[s] = "runEditor" /\ pc'[s] = "waitEditor"

\* The permission change of main.go:361 has failed.
ChmodFailed(s) == result[s] = "ChmodError"

InWorkspace(s) ==
    /\ pc[s] \notin {"off", "checkAccess", "loadIdentities", "mkdir", "exited"}
    /\ result[s] \notin {"AccessError", "IdentityError", "UserError", "WorkspaceError"}

\* The step is one of session s or of its editor.
Acts(s) ==
    \/ pc'[s] # pc[s]
    \/ sv'[s] # sv[s]
    \/ lpc'[s] # lpc[s]
    \/ EditorWrite(s)

\* The random subdirectory d and all in it stay as they are.
WorkspaceKept(d) ==
    /\ tempDir'[d] = tempDir[d]
    /\ tempFile'[d] = tempFile[d]
    /\ mode'.dirs[d] = mode.dirs[d]
    /\ mode'.files[d] = mode.files[d]

\* C27 as stated: two sessions that have their workspaces at the same time
\* have different random subdirectories, whatever random identifiers they
\* drew.
C27_NeverShared ==
    \A s \in Sessions :
        (InWorkspace(s) /\ InWorkspace(Other(s)))
            => TempDirPath(s) # TempDirPath(Other(s))

\* C27: two sessions that have their workspaces at the same time have
\* different random subdirectories when they drew different random
\* identifiers, and then no step of one changes the workspace of the other;
\* two sessions that drew the same identifier have the same subdirectory.
C27_SharedOnlyOnEqualDraws ==
    /\ [](\A s \in Sessions :
             (InWorkspace(s) /\ InWorkspace(Other(s)))
                 => ((TempDirPath(s) = TempDirPath(Other(s)))
                        <=> (rand[s] = rand[Other(s)])))
    /\ [][\A s \in Sessions :
              (rand[s] # rand[Other(s)] /\ ~Acts(s))
                  => WorkspaceKept(TempDirPath(s))]_vars

\* C27's case: two sessions that drew different identifiers have their
\* workspaces at the same time, each with its temp file.
C27_Witness ==
    /\ rand["s1"] # rand["s2"]
    /\ \A s \in Sessions :
           /\ InWorkspace(s)
           /\ tempDir[TempDirPath(s)]
           /\ tempFile[TempDirPath(s)].st = "file"

\* The teardown of session s (the defers of main.go:755-756) runs in this
\* step.
TearsDown(s) == pc[s] = "cleanup" /\ pc'[s] = "exited" /\ ReturnsTempDir(result[s])

\* What the teardown of s does to its own paths and to its result: the
\* random subdirectory and the temp file are gone, the per-user directory is
\* gone if and only if it has no subdirectory left, and the result is as it
\* was, whether or not the paths were still there.
TeardownOwn(s) ==
    /\ ~tempDir'[TempDirPath(s)]
    /\ tempFile'[TempDirPath(s)] = NoFile
    /\ userDir' <=> (userDir /\ \E d \in TempDirs : tempDir'[d])
    /\ result'[s] = result[s]

\* C28 as stated: the teardown removes the session's random subdirectory
\* with all in it and the per-user directory only when that is empty, never
\* the subdirectory or temp file of another session that has its workspace,
\* and does not change the result when a path is gone already.
C28_TeardownSparesOthers ==
    [][\A s \in Sessions :
           TearsDown(s) =>
               /\ TeardownOwn(s)
               /\ InWorkspace(Other(s)) => WorkspaceKept(TempDirPath(Other(s)))]_vars

\* C28: the teardown removes the session's random subdirectory with all in
\* it and the per-user directory only when that is empty, never the
\* subdirectory or temp file of another session that drew a different random
\* identifier, and does not change the result when a path is gone already.
C28_TeardownSparesOtherDraws ==
    [][\A s \in Sessions :
           TearsDown(s) =>
               /\ TeardownOwn(s)
               /\ rand[Other(s)] # rand[s] => WorkspaceKept(TempDirPath(Other(s)))
               /\ (rand[Other(s)] = rand[s] /\ InWorkspace(Other(s)))
                      => ~tempDir'[TempDirPath(Other(s))]]_vars

\* C28's case: a session has torn down its workspace while another, which
\* drew a different identifier, has its own with the temp file in it; the
\* per-user directory is still there.
C28_Witness ==
    \E s \in Sessions :
        /\ pc[s] = "exited" /\ ReturnsTempDir(result[s])
        /\ ~tempDir[TempDirPath(s)]
        /\ rand[Other(s)] # rand[s]
        /\ InWorkspace(Other(s))
        /\ tempDir[TempDirPath(Other(s))]
        /\ tempFile[TempDirPath(Other(s))].st = "file"
        /\ userDir

\* edit returns in this step.
EditReturns(s) == result[s] = "none" /\ result'[s] # "none"

\* edit never removes the workspace, and it returns "" for the directory
\* exactly when it fails before calling MkdirAll.
EditLeavesWorkspace ==
    [][\A s \in Sessions :
           /\ (tempDir[TempDirPath(s)] /\ ~tempDir'[TempDirPath(s)])
                  => pc[s] = "cleanup"
           /\ (tempFile[TempDirPath(s)].st = "file"
                 /\ tempFile'[TempDirPath(s)].st = "absent")
                  => (EditorWrite(s) \/ pc[s] = "cleanup")
           /\ EditReturns(s) =>
                  (ReturnsTempDir(result'[s])
                       <=> pc[s] \notin {"checkAccess", "loadIdentities"})
           /\ (EditReturns(s) /\ pc[s] \notin {"checkAccess", "loadIdentities", "mkdir"})
                  => tempDir'[TempDirPath(s)]]_vars

\* C29 as stated: edit never removes the workspace and returns "" for the
\* directory exactly when it fails before calling MkdirAll; when it has
\* returned Success on an existing encrypted file the directory holds the
\* temp file.
C29_OneEntryAfterSuccess ==
    /\ EditLeavesWorkspace
    /\ [](\A s \in Sessions :
             (Returned(s) /\ result[s] = "Success" /\ exists[s])
                 => /\ tempDir[TempDirPath(s)]
                    /\ tempFile[TempDirPath(s)].st = "file")

\* C29: edit never removes the workspace nor the temp file and returns ""
\* for the directory exactly when it fails before calling MkdirAll; on an
\* existing encrypted file it has put the temp file into the directory once
\* decryption has succeeded, so when it has returned Success the directory
\* is there and holds the temp file unless the editor removed it.
C29_WorkspaceLeftToCaller ==
    /\ EditLeavesWorkspace
    /\ [][\A s \in Sessions :
              (pc[s] = "decrypt" /\ pc'[s] = "checksum")
                  => tempFile'[TempDirPath(s)].st = "file"]_vars
    /\ [](\A s \in Sessions :
             (Returned(s) /\ result[s] = "Success") => tempDir[TempDirPath(s)])

\* C29's case: edit has returned Success on an existing encrypted file, and
\* the directory holds the temp file, changed by the editor.
C29_Witness ==
    \E s \in Sessions :
        /\ Returned(s) /\ result[s] = "Success" /\ exists[s]
        /\ ~cfg[s].readOnly
        /\ tempDir[TempDirPath(s)]
        /\ Edited(s)

\* A path that can name a file: not empty, no slash at its end, its last
\* element neither "." nor "..".
NamesFile(path) ==
    /\ path # <<>>
    /\ path[Len(path)] # "/"
    /\ Base(path) \notin {<<".">>, <<".", ".">>}

\* C30: the temp file's path is the workspace directory
\* {prefix}/age-edit-{user}@{host}/{random id} followed by the base name of
\* the encrypted file's path with one ".age" taken from its end, if there is
\* one; getRoot takes one ".age" from the end of a path and returns a path
\* without it unchanged.
C30_TempFilePath ==
    /\ (call.fn = "tempFile" /\ call.done /\ NamesFile(call.in)) =>
           call.out = Join(<<"prefix", "age-edit-user@host", rand["s1"]>>,
                           TrimSuffix(Base(call.in), AgeSuffix))
    /\ (call.fn = "getRoot" /\ call.done) =>
           IF HasSuffix(call.in, AgeSuffix)
           THEN call.out \o AgeSuffix = call.in
           ELSE call.out = call.in

\* The encode and decode filters are inverse to each other: none, or the
\* compressor and its inverse.
InverseFilters(in) ==
    \/ in.encodeCmd = "" /\ in.decodeCmd = ""
    \/ in.encodeCmd = "gzip" /\ in.decodeCmd = "gzip -d"

Counts(line) ==
    \E i \in 1 .. Len(line) :
        /\ line[i] \notin {" ", "#"}
        /\ \A j \in 1 .. i - 1 : line[j] = " "

\* The line is the text of key k with nothing but spaces around it.
IsKey(line, k) ==
    \E i \in 1 .. Len(line) :
        /\ line[i] = KeyText(k)
        /\ \A j \in (1 .. Len(line)) \ {i} : line[j] = " "

\* C32: loadIdentities returns, in file order, the identity of every line
\* that is neither blank nor a comment, and its recipient, as many of the one
\* as of the other; it fails on the first such line that is no key, with the
\* line's position among such lines, counted from 1, and it fails when there
\* is no such line.
C32_LoadIdentities ==
    (call.fn = "loadIdentities" /\ call.done) =>
        LET kept == SelectSeq(call.in, Counts)
            bad == {i \in 1 .. Len(kept) : ~\E k \in Keys : IsKey(kept[i], k)}
            out == call.out
        IN /\ Len(out.identities) = Len(out.recipients)
           /\ bad # {} =>
                  /\ out.err = "failed to parse private key"
                  /\ out.number \in bad /\ \A i \in bad : out.number <= i
           /\ (bad = {} /\ kept = <<>>) => out.err = "no identities found in file"
           /\ (bad = {} /\ kept # <<>>) =>
                  /\ out.err = ""
                  /\ Len(out.identities) = Len(kept)
                  /\ \A i \in 1 .. Len(kept) :
                         /\ IsKey(kept[i], out.identities[i])
                         /\ out.recipients[i] = [pub |-> out.identities[i]]

\* C32's case: loadIdentities has failed on the second line that counts,
\* which is the third line of the file, after a comment.
C32_Witness ==
    /\ call.fn = "loadIdentities" /\ call.done
    /\ call.in = <<<<"key1">>, <<"#">>, <<"junk">>>>
    /\ call.out.err = "failed to parse private key"
    /\ call.out.number = 2

\* C33: when edit has returned Success in a session that is not read-only
\* and the encrypted file is a complete one, it decrypts to what the temp
\* file holds, whatever the order of the editor's writes and the saves
\* (here: even with no failed save and no signal after the disarming).
C33_SuccessMeansSaved ==
    \A s \in Sessions :
        (/\ Returned(s) /\ result[s] = "Success" /\ ~cfg[s].readOnly
         /\ enc.st = "age"
         /\ ~hist[s].failed /\ ~hist[s].late
         /\ lpc[s] \in {"none", "exit"})
            => checksumFile(File(enc.plain)) = checksumFile(tempFile[TempDirPath(s)])

\* C34: a save that a signal has triggered runs only before edit returns:
\* not once the eager save is disarmed, not once the deferred Unlock is
\* reached or done, and not while cli prompts or removes the workspace.
C34_SavesEndBeforeReturn ==
    \A s \in Sessions :
        Saving(s, "listener")
            => /\ ~Disarmed(s)
               /\ pc[s] \notin {"deferUnlock", "cli", "prompt", "cleanup"}

\* C35, in the case of an editor that exited with an error: when the
\* process has ended and the workspace is removed, an encrypted file that is
\* there is a complete ciphertext, also after a failed checkpoint save
\* (every save of the session has ended, none came after the disarming).
C35_CompleteAtExit ==
    \A s \in Sessions :
        (/\ pc[s] = "exited" /\ result[s] = "EditorError"
         /\ ~tempDir[TempDirPath(s)]
         /\ ~hist[s].late /\ lpc[s] \in {"none", "exit"}
         /\ enc.st # "absent")
            => enc.st = "age"

\* C36: a save that ends the encryption as saved (the last-saved digest
\* becomes the digest of this save) leaves a complete ciphertext, trailer and
\* final chunk included, in the encrypted file.
C36_SavedMeansComplete ==
    [][\A s \in Sessions : \A a \in {"main", "listener"} :
          (/\ sv[s][a].phase = "created"
           /\ sv'[s][a] = IdleSave
           /\ beforeSum'[s] = sv[s][a].cur)
              => enc'.st = "age"]_vars

\* C37: a save that finds the temp file missing, both when it takes the
\* digest and when it opens the file, leaves the encrypted file as it is; it
\* reports an error if the last-saved digest is not that of empty content,
\* and otherwise ends without error and without a new last-saved digest.
C37_MissingTempFile ==
    [][\A s \in Sessions : \A a \in Activities :
          (/\ sv[s][a].phase = "summed" /\ sv'[s][a].phase # "summed"
           /\ tempFile[TempDirPath(s)].st = "absent"
           /\ sv[s][a].cur = EmptySum)
              => /\ enc' = enc
                 /\ sv'[s][a].phase = "idle"
                 /\ beforeSum'[s] = beforeSum[s]
                 /\ IF beforeSum[s] # EmptySum
                    THEN ReportsError(s, a)
                    ELSE IF a = "main" THEN result'[s] = "Success"
                                       ELSE ~hist'[s].failed]_vars

\* C37's case: the final save has failed on the missing temp file, with a
\* last-saved digest of other than empty content, and the encrypted file is
\* the complete one it was.
C37_Witness ==
    \E s \in Sessions :
        /\ pc[s] = "prompt" /\ result[s] = "SaveError"
        /\ tempDir[TempDirPath(s)]
        /\ tempFile[TempDirPath(s)].st = "absent"
        /\ beforeSum[s] # EmptySum
        /\ ~hist[s].late /\ lpc[s] = "exit"
        /\ enc = Age(1)

(* ------------ Workspace creation and removal, call by call ------------ *)

\* os.MkdirAll(tempDir) of main.go:323, as far as the per-user directory: a
\* random subdirectory that is there already ends the call; otherwise the
\* per-user directory is made unless it exists.  (The prefix exists and can
\* be written to.)
MkdirAllParent(s) ==
    /\ pc[s] = "mkdir"
    /\ IF tempDir[TempDirPath(s)]
       THEN /\ pc' = [pc EXCEPT ![s] = "tryLock"]
            /\ UNCHANGED <<userDir, mode>>
       ELSE /\ userDir' = TRUE
            /\ mode' = [mode EXCEPT !.user = IF userDir THEN @ ELSE Created(tempDirPerm)]
            /\ pc' = [pc EXCEPT ![s] = "mkdirChild"]
    /\ UNCHANGED <<call, umask, rand, ids, readers, force, hist, cfg, enc, result, exists, lockHeld, tempDir, tempFile,
                   beforeSum, initSum, mu, sv, lpc, sigArmed, sigBuf, eventsLeft, prompted, signalled, trig>>

\* os.MkdirAll(tempDir), the Mkdir of the random subdirectory: without the
\* per-user directory it fails (ENOENT) and edit returns the path with the
\* error (main.go:324-326); a subdirectory that another session has made in
\* the meantime is accepted.
MkdirAllChild(s) ==
    /\ pc[s] = "mkdirChild"
    /\ IF userDir
       THEN /\ tempDir' = [tempDir EXCEPT ![TempDirPath(s)] = TRUE]
            /\ mode' = [mode EXCEPT !.dirs[TempDirPath(s)] =
                                        IF tempDir[TempDirPath(s)] THEN @
                                        ELSE Created(tempDirPerm)]
            /\ pc' = [pc EXCEPT ![s] = "tryLock"]
            /\ UNCHANGED result
       ELSE /\ Return(s, "WorkspaceError")
            /\ UNCHANGED <<tempDir, mode>>
    /\ UNCHANGED <<call, umask, userDir, rand, ids, readers, force, hist, cfg, enc, exists, lockHeld, tempFile,
                   beforeSum, initSum, mu, sv, lpc, sigArmed, sigBuf, eventsLeft, prompted, signalled, trig>>

\* main.go:757: the deferred os.RemoveAll(tempDir), which runs first, when
\* edit returned a directory.
RemoveAllTempDir(s) ==
    /\ pc[s] = "cleanup"
    /\ IF ReturnsTempDir(result[s])
       THEN /\ tempDir' = [tempDir EXCEPT ![TempDirPath(s)] = FALSE]
            /\ tempFile' = [tempFile EXCEPT ![TempDirPath(s)] = NoFile]
            /\ mode' = [mode EXCEPT !.dirs[TempDirPath(s)] = NoPerm,
                                    !.files[TempDirPath(s)] = NoPerm]
            /\ pc' = [pc EXCEPT ![s] = "removeParent"]
            /\ UNCHANGED lockHeld
       ELSE /\ pc' = [pc EXCEPT ![s] = "exited"]
            /\ lockHeld' = [lockHeld EXCEPT ![s] = FALSE]
            /\ UNCHANGED <<tempDir, tempFile, mode>>
    /\ UNCHANGED <<call, umask, userDir, rand, ids, readers, force, hist, cfg, enc, result, exists, beforeSum, initSum,
                   mu, sv, lpc, sigArmed, sigBuf, eventsLeft, prompted, signalled, trig>>

\* main.go:756, 782-790: the deferred os.Remove of the per-user directory,
\* which succeeds if the directory is empty at that moment; then main exits.
RemoveUserDir(s) ==
    /\ pc[s] = "removeParent"
    /\ userDir' = (userDir /\ ~Empty(tempDir))
    /\ mode' = [mode EXCEPT !.user = IF userDir' THEN @ ELSE NoPerm]
    /\ pc' = [pc EXCEPT ![s] = "exited"]
    /\ lockHeld' = [lockHeld EXCEPT ![s] = FALSE]
    /\ UNCHANGED <<call, umask, rand, ids, readers, force, hist, cfg, enc, result, exists, tempDir, tempFile, beforeSum,
                   initSum, mu, sv, lpc, sigArmed, sigBuf, eventsLeft, prompted, signalled, trig>>

\* The steps of read-only sessions, with the workspace made and removed one
\* system call at a time.
NextDirs ==
    \E s \in Sessions :
        \/ CheckAccess(s)
        \/ LoadIdentities(s)
        \/ MkdirAllParent(s)
        \/ MkdirAllChild(s)
        \/ AcquireLock(s)
        \/ Decrypt(s)
        \/ Checksum(s)
        \/ Chmod(s)
        \/ RunEditor(s)
        \/ EditorWrite(s)
        \/ EditorExit(s)
        \/ Cli(s)
        \/ RemoveAllTempDir(s)
        \/ RemoveUserDir(s)

\* Two read-only sessions of one user on an existing encrypted file, with
\* different random identifiers.
InitDirs ==
    /\ InitCommon
    /\ enc = Age(MaxContent)
    /\ call = NoCall
    /\ OneKey
    /\ DistinctDraws
    /\ UsualUmask
    /\ force = [s \in Sessions |-> FALSE]
    /\ cfg = [s \in Sessions |-> [lock |-> FALSE, readOnly |-> TRUE]]
    /\ pc = [s \in Sessions |-> "checkAccess"]
    /\ eventsLeft = DuoEvents

SpecDirs == InitDirs /\ [][NextDirs]_vars

\* C38: no session's workspace creation fails in a file system that is
\* otherwise in order, whatever another session of the same user does at
\* the same time.
C38_CreationNeverFails ==
    \A s \in Sessions : result[s] # "WorkspaceError"

\* C39: the warning is printed exactly when the threshold is positive, the
\* editor was run, and it exited less than that many whole seconds after its
\* launch; the exit code is that of edit's result whatever the warning.
C39_WarnsOnQuickEditor ==
    (call.fn = "warn" /\ call.done) =>
        /\ call.out.warned <=>
               (/\ call.in.warn > 0
                /\ call.in.ran
                /\ call.in.exited - call.in.launched < call.in.warn)
        /\ call.out.exit = (IF call.in.failed THEN exitError ELSE exitOK)

====
